---- MODULE Spec2Model ----
(***************************************************************************)
(* Model of the shiftnotes backend: the assessment store, the access       *)
(* resolver of AssessmentViewSet, the edit/delete lifecycle guard, the     *)
(* creation of an Assessment with its AssessmentEPA rows, the mailbox       *)
(* acknowledgement and the competency-grid analytics endpoint.             *)
(***************************************************************************)
EXTENDS Integers, Sequences, FiniteSets, TLC

VARIABLES
    users,            \* table "users": id -> row
    assessments,      \* table "assessments": id -> row
    assessment_epas,  \* table "assessment_epas": set of rows
    nextId,           \* number of primary keys handed out so far, plus one
    now,              \* timezone.now(), in seconds
    creating,         \* the create request in flight (between two statements)
    requested,        \* payload rows of every create request that began
    last,             \* the last request handled and its response
    epas,             \* table "epas": the ids of its rows
    destroying,       \* the EPA delete requests in flight (between check and delete)
    marking,          \* the mark_read requests in flight (between the read and the insert of add)
    cache,            \* the cache entries login_attempts_<email>: attempts and expiry
    tokens,           \* table "authtoken_token": the accounts that hold a token
    history,          \* per address, the login attempts since its last successful login
    credentials,      \* the body of the last login request
    activity,         \* the cache entries token_last_activity_<key>: instant and expiry
    session,          \* per token, its requests since the last login of its user
    recording         \* the failed logins in flight (between cache.get and cache.set)

vars == <<users, assessments, assessment_epas, nextId, now, creating, requested, last, epas, destroying, marking, cache, tokens, history, credentials, activity, session, recording>>

None == "None"

\* ------------------------------------------------------------------ bounds
MaxAssessments == 2

\* ------------------------------------------------------------------ time
HOUR == 3600
DAY == 86400

\* The instants at which requests arrive: the boundary cases of the 7-day
\* window seen from an Assessment created at 0.
Instants == {0, 6 * DAY + 23 * HOUR, 7 * DAY, 7 * DAY + 1, 8 * DAY + 1}

\* ------------------------------------------------------------------ users
Roles == {"trainee", "faculty", "admin", "leadership", "system-admin"}

User(role, program, organization) ==
    [role |-> role, program |-> program, organization |-> organization]

\* The rows of table "users" (its CRUD is outside the model: no action
\* changes them).
BaseUsers ==
    [t1 |-> User("trainee", "P1", "O1"),
     t2 |-> User("trainee", "P2", "O1"),
     f1 |-> User("faculty", "P1", "O1"),
     f2 |-> User("faculty", "P2", "O1"),
     a1 |-> User("admin", "P1", "O1"),
     l1 |-> User("leadership", "P1", "O1"),
     sa |-> User("system-admin", "P1", "O1"),
     nf |-> User("faculty", None, "O1"),
     na |-> User("admin", None, "O1"),
     x3 |-> User("faculty", "P3", "O2")]

UserIds == DOMAIN BaseUsers

\* The user without a program has any of the roles.
UserTables == {[BaseUsers EXCEPT !.nf.role = r] : r \in Roles}

Epas == {"e1", "e2"}

STATUS_CHOICES == {"draft", "submitted", "locked"}

EntrustmentLevels == 1 .. 5

AssessmentIds == 1 .. MaxAssessments

\* ------------------------------------------------------------------ dates
\* A calendar date is <<year, month, day>>; a date string of a query is the
\* sequence of its "-"-separated fields, the empty string the empty sequence.
DateLeq(a, b) ==
    \/ a[1] < b[1]
    \/ a[1] = b[1] /\ a[2] < b[2]
    \/ a[1] = b[1] /\ a[2] = b[2] /\ a[3] <= b[3]

IsLeap(y) == (y % 4 = 0 /\ y % 100 # 0) \/ y % 400 = 0

DaysInMonth(y, m) ==
    IF m = 2 THEN (IF IsLeap(y) THEN 29 ELSE 28)
    ELSE IF m \in {4, 6, 9, 11} THEN 30 ELSE 31

\* strptime raising ValueError is the empty sequence
ValueError == <<>>

\* datetime.strptime(s, '%Y-%m-%d').date()
Strptime(s) ==
    IF /\ Len(s) = 3
       /\ s[1] \in 1 .. 9999
       /\ s[2] \in 1 .. 12
       /\ s[3] \in 1 .. DaysInMonth(s[1], s[2])
    THEN s
    ELSE ValueError

\* ------------------------------------------------------------------ resolver
\* request.query_params without any of the optional filters
NoParams ==
    [trainee_id |-> None, evaluator_id |-> None, epa_id |-> None,
     start_date |-> <<>>, end_date |-> <<>>]

\* The status filter without its evaluator condition: every draft passes.
StatusVisibleAnyDraft(row, u) == row.status \in {"submitted", "draft"}

\* Q(status='submitted') | Q(status='draft', evaluator=user)
StatusVisible(row, u) ==
    \/ row.status = "submitted"
    \/ row.status = "draft" /\ row.evaluator = u

\* The role-based part of get_queryset, over the table S of assessments.
RoleQueryset(S, u) ==
    IF users[u].role \in {"admin", "leadership"}
    THEN {id \in DOMAIN S :
            /\ users[S[id].trainee].program = users[u].program
            /\ StatusVisible(S[id], u)}
    ELSE {id \in DOMAIN S :
            /\ (S[id].trainee = u \/ S[id].evaluator = u)
            /\ StatusVisible(S[id], u)}

\* The optional filters with a date that does not parse matching no row
ParamFilterReject(S, E, ids, p) ==
    {id \in ids :
        /\ p.trainee_id # None => S[id].trainee = p.trainee_id
        /\ p.evaluator_id # None => S[id].evaluator = p.evaluator_id
        /\ p.epa_id # None =>
              \E r \in E : r.assessment = id /\ r.epa = p.epa_id
        /\ p.start_date # <<>> =>
              /\ Strptime(p.start_date) # ValueError
              /\ DateLeq(Strptime(p.start_date), S[id].shift_date)
        /\ p.end_date # <<>> =>
              /\ Strptime(p.end_date) # ValueError
              /\ DateLeq(S[id].shift_date, Strptime(p.end_date))}

\* The optional filters shared by get_queryset, my_assessments and
\* received_assessments: each one applies when its parameter is non-empty.
ParamFilter(S, E, ids, p) ==
    {id \in ids :
        /\ p.trainee_id # None => S[id].trainee = p.trainee_id
        /\ p.evaluator_id # None => S[id].evaluator = p.evaluator_id
        /\ p.epa_id # None =>
              \E r \in E : r.assessment = id /\ r.epa = p.epa_id
        /\ (p.start_date # <<>> /\ Strptime(p.start_date) # ValueError) =>
              DateLeq(Strptime(p.start_date), S[id].shift_date)
        /\ (p.end_date # <<>> /\ Strptime(p.end_date) # ValueError) =>
              DateLeq(S[id].shift_date, Strptime(p.end_date))}

\* get_queryset without the early return for a user that has no program
GetQuerysetOpen(S, E, u, p) == ParamFilter(S, E, RoleQueryset(S, u), p)

\* AssessmentViewSet.get_queryset
GetQueryset(S, E, u, p) ==
    IF users[u].program = None
    THEN {}
    ELSE ParamFilter(S, E, RoleQueryset(S, u), p)

\* AssessmentViewSet.my_assessments
MyAssessments(S, E, u, p) ==
    ParamFilter(S, E, {id \in DOMAIN S : S[id].trainee = u \/ S[id].evaluator = u}, p)

\* AssessmentViewSet.given_assessments
GivenAssessments(S, u) == {id \in DOMAIN S : S[id].evaluator = u}

\* AssessmentViewSet.received_assessments
ReceivedAssessments(S, E, u, p) ==
    ParamFilter(S, E, {id \in DOMAIN S : S[id].trainee = u}, p)

\* GenericAPIView.get_object over get_queryset: the row, or Http404.
Http404 == 0

\* get_object over Assessment.objects.all() instead of get_queryset()
GetObjectUnscoped(S, E, u, id) == IF id \in DOMAIN S THEN id ELSE Http404

GetObject(S, E, u, id) ==
    IF id \in GetQueryset(S, E, u, NoParams) THEN id ELSE Http404

\* ------------------------------------------------------------------ responses
\* days_old and max_age_days of a response that carries neither
NoDays == -1

\* A response: status code, error_code, days_old, max_age_days, the detail
\* text and the serialized rows of the body.
Response(code, error_code, days_old, max_age_days, detail, data) ==
    [code |-> code, error_code |-> error_code, days_old |-> days_old,
     max_age_days |-> max_age_days, detail |-> detail, data |-> data]

Result(response, S, E) ==
    [response |-> response, assessments |-> S, assessment_epas |-> E]

NotFound == Response(404, None, NoDays, NoDays, "Not found.", {})

\* AssessmentSerializer: the fields of one Assessment as the actor reads them.
Serialize(S, E, id) ==
    [id |-> id, trainee |-> S[id].trainee, evaluator |-> S[id].evaluator,
     shift_date |-> S[id].shift_date, status |-> S[id].status,
     private_comments |-> S[id].private_comments,
     acknowledged_by |-> S[id].acknowledged_by,
     assessment_epas |->
        {[epa |-> r.epa, entrustment_level |-> r.entrustment_level] :
            r \in {x \in E : x.assessment = id}}]

\* timedelta.days of a non-negative age in seconds
TimedeltaDays(age) == age \div DAY

\* ModelViewSet.retrieve
RetrieveResult(S, E, u, id) ==
    IF GetObject(S, E, u, id) = Http404
    THEN Result(NotFound, S, E)
    ELSE Result(Response(200, None, NoDays, NoDays, "", {Serialize(S, E, id)}), S, E)

\* A PUT/PATCH body: a field that is not in the body is None (<<>> for the
\* date, Unset for the list of acknowledging users).
Unset == {None}

NoData ==
    [trainee |-> None, evaluator |-> None, shift_date |-> <<>>, status |-> None,
     private_comments |-> None, acknowledged_by |-> Unset]

\* serializer.is_valid() of AssessmentSerializer
DataValid(data, partial) ==
    /\ data.trainee # None => data.trainee \in UserIds
    /\ data.evaluator # None => data.evaluator \in UserIds
    /\ data.status # None => data.status \in STATUS_CHOICES
    /\ data.shift_date # <<>> => Strptime(data.shift_date) # ValueError
    /\ data.acknowledged_by # Unset => data.acknowledged_by \subseteq UserIds
    /\ ~partial =>
          data.trainee # None /\ data.evaluator # None /\ data.shift_date # <<>>

\* ModelSerializer.update: every field of the body is assigned.
ApplyData(row, data) ==
    [trainee |-> IF data.trainee # None THEN data.trainee ELSE row.trainee,
     evaluator |-> IF data.evaluator # None THEN data.evaluator ELSE row.evaluator,
     shift_date |->
        IF data.shift_date # <<>> THEN Strptime(data.shift_date) ELSE row.shift_date,
     status |-> IF data.status # None THEN data.status ELSE row.status,
     private_comments |->
        IF data.private_comments # None THEN data.private_comments
        ELSE row.private_comments,
     acknowledged_by |->
        IF data.acknowledged_by # Unset THEN data.acknowledged_by
        ELSE row.acknowledged_by,
     created_at |-> row.created_at]

\* UpdateModelMixin.update, reached once the checks of the view passed
SuperUpdate(S, E, u, id, data, partial) ==
    IF GetObject(S, E, u, id) = Http404
    THEN Result(NotFound, S, E)
    ELSE IF ~DataValid(data, partial)
    THEN Result(Response(400, None, NoDays, NoDays, "invalid", {}), S, E)
    ELSE LET T == [S EXCEPT ![id] = ApplyData(S[id], data)]
         IN  Result(Response(200, None, NoDays, NoDays, "", {Serialize(T, E, id)}), T, E)

\* update with the age check off by one: an age of exactly 7 days is rejected
UpdateResultStrict(S, E, u, id, data, t) ==
    IF GetObject(S, E, u, id) = Http404
    THEN Result(NotFound, S, E)
    ELSE IF S[id].evaluator # u
    THEN Result(Response(403, "not_evaluator", NoDays, NoDays,
                         "You can only edit assessments you created.", {}), S, E)
    ELSE IF t - S[id].created_at >= 7 * DAY
    THEN Result(Response(403, "too_old", TimedeltaDays(t - S[id].created_at), 7,
                         "Cannot edit assessment.", {}), S, E)
    ELSE SuperUpdate(S, E, u, id, data, FALSE)

\* AssessmentViewSet.update
UpdateResult(S, E, u, id, data, t) ==
    IF GetObject(S, E, u, id) = Http404
    THEN Result(NotFound, S, E)
    ELSE IF S[id].evaluator # u
    THEN Result(Response(403, "not_evaluator", NoDays, NoDays,
                         "You can only edit assessments you created.", {}), S, E)
    ELSE IF t - S[id].created_at > 7 * DAY
    THEN Result(Response(403, "too_old", TimedeltaDays(t - S[id].created_at), 7,
                         "Cannot edit assessment.", {}), S, E)
    ELSE SuperUpdate(S, E, u, id, data, FALSE)

\* AssessmentViewSet.partial_update
PartialUpdateResult(S, E, u, id, data, t) ==
    IF GetObject(S, E, u, id) = Http404
    THEN Result(NotFound, S, E)
    ELSE IF S[id].evaluator # u
    THEN Result(Response(403, "not_evaluator", NoDays, NoDays,
                         "You can only edit assessments you created.", {}), S, E)
    ELSE IF t - S[id].created_at > 7 * DAY
    THEN Result(Response(403, "too_old", TimedeltaDays(t - S[id].created_at), 7,
                         "Cannot edit assessment.", {}), S, E)
    ELSE SuperUpdate(S, E, u, id, data, TRUE)

\* perform_destroy: the row goes, its AssessmentEPA rows cascade.
PerformDestroy(S, E, id) ==
    [assessments |-> [i \in DOMAIN S \ {id} |-> S[i]],
     assessment_epas |-> {r \in E : r.assessment # id}]

\* destroy with its two checks swapped: the age is looked at first
DestroyResultAgeFirst(S, E, u, id, t) ==
    IF GetObject(S, E, u, id) = Http404
    THEN Result(NotFound, S, E)
    ELSE IF t - S[id].created_at > 7 * DAY
    THEN Result(Response(403, "too_old", TimedeltaDays(t - S[id].created_at), 7,
                         "Cannot delete assessment.", {}), S, E)
    ELSE IF S[id].evaluator # u
    THEN Result(Response(403, "not_evaluator", NoDays, NoDays,
                         "You can only delete assessments you created.", {}), S, E)
    ELSE LET d == PerformDestroy(S, E, id)
         IN  Result(Response(200, None, NoDays, NoDays, "deleted successfully.", {}),
                    d.assessments, d.assessment_epas)

\* AssessmentViewSet.destroy
DestroyResult(S, E, u, id, t) ==
    IF GetObject(S, E, u, id) = Http404
    THEN Result(NotFound, S, E)
    ELSE IF S[id].evaluator # u
    THEN Result(Response(403, "not_evaluator", NoDays, NoDays,
                         "You can only delete assessments you created.", {}), S, E)
    ELSE IF t - S[id].created_at > 7 * DAY
    THEN Result(Response(403, "too_old", TimedeltaDays(t - S[id].created_at), 7,
                         "Cannot delete assessment.", {}), S, E)
    ELSE LET d == PerformDestroy(S, E, id)
         IN  Result(Response(200, None, NoDays, NoDays, "deleted successfully.", {}),
                    d.assessments, d.assessment_epas)

\* mark_read answering 400 to a user that has acknowledged already, as
\* acknowledge does
MarkReadResultOnce(S, E, u, id) ==
    IF GetObject(S, E, u, id) = Http404
    THEN Result(NotFound, S, E)
    ELSE IF users[u].role \notin {"leadership", "admin"}
    THEN Result(Response(403, None, NoDays, NoDays,
                         "Only leadership and admins can mark assessments as read.", {}),
                S, E)
    ELSE IF u \in S[id].acknowledged_by
    THEN Result(Response(400, None, NoDays, NoDays, "Assessment already acknowledged.", {}),
                S, E)
    ELSE Result(Response(200, None, NoDays, NoDays, "Assessment marked as read.", {}),
                [S EXCEPT ![id].acknowledged_by = @ \cup {u}], E)

\* AssessmentViewSet.mark_read
MarkReadResult(S, E, u, id) ==
    IF GetObject(S, E, u, id) = Http404
    THEN Result(NotFound, S, E)
    ELSE IF users[u].role \notin {"leadership", "admin"}
    THEN Result(Response(403, None, NoDays, NoDays,
                         "Only leadership and admins can mark assessments as read.", {}),
                S, E)
    ELSE Result(Response(200, None, NoDays, NoDays, "Assessment marked as read.", {}),
                [S EXCEPT ![id].acknowledged_by = @ \cup {u}], E)

\* ------------------------------------------------------------------ create
\* A POST body: status None takes the model default, epas_given FALSE is a
\* body without the assessment_epas list.
CreateData(trainee, evaluator, shift_date, status, private_comments, rows) ==
    [trainee |-> trainee, evaluator |-> evaluator, shift_date |-> shift_date,
     status |-> status, private_comments |-> private_comments,
     epas_given |-> TRUE, assessment_epas |-> rows]

EpaData(epa, level) == [epa |-> epa, entrustment_level |-> level]

\* serializer.is_valid() of AssessmentCreateSerializer
CreateValid(data) ==
    /\ data.trainee \in UserIds
    /\ data.evaluator \in UserIds
    /\ Strptime(data.shift_date) # ValueError
    /\ data.status # None => data.status \in STATUS_CHOICES
    /\ data.epas_given
    /\ \A i \in 1 .. Len(data.assessment_epas) :
          /\ data.assessment_epas[i].epa \in epas
          /\ data.assessment_epas[i].entrustment_level \in EntrustmentLevels

\* Assessment.objects.create(**validated_data)
InsertAssessment(S, id, data, t) ==
    [i \in DOMAIN S \cup {id} |->
        IF i = id
        THEN [trainee |-> data.trainee, evaluator |-> data.evaluator,
              shift_date |-> Strptime(data.shift_date),
              status |-> IF data.status = None THEN "draft" ELSE data.status,
              private_comments |->
                 IF data.private_comments = None THEN "" ELSE data.private_comments,
              acknowledged_by |-> {},
              created_at |-> t]
        ELSE S[i]]

\* unique_together (assessment, epa): the insert that raises IntegrityError
Duplicate(E, id, row) == \E r \in E : r.assessment = id /\ r.epa = row.epa

\* AssessmentEPA.objects.create(assessment=assessment, **epa_data)
InsertEPA(E, id, row) ==
    E \cup {[assessment |-> id, epa |-> row.epa,
             entrustment_level |-> row.entrustment_level]}

\* The loop of AssessmentCreateSerializer.create over the rows of the body:
\* it stops at the first insert that raises.
RECURSIVE InsertRows(_, _, _)
InsertRows(E, id, rows) ==
    IF rows = <<>>
    THEN [ok |-> TRUE, assessment_epas |-> E]
    ELSE IF Duplicate(E, id, Head(rows))
    THEN [ok |-> FALSE, assessment_epas |-> E]
    ELSE InsertRows(InsertEPA(E, id, Head(rows)), id, Tail(rows))

Created(S, E, id) == Response(201, None, NoDays, NoDays, "", {Serialize(S, E, id)})

ServerError == Response(500, None, NoDays, NoDays, "IntegrityError", {})

BadRequest == Response(400, None, NoDays, NoDays, "invalid", {})

\* CreateModelMixin.create with AssessmentCreateSerializer.create, run to its
\* end without another request in between.
CreateResult(S, E, id, data, t) ==
    IF ~CreateValid(data)
    THEN Result(BadRequest, S, E)
    ELSE LET T == InsertAssessment(S, id, data, t)
             r == InsertRows(E, id, data.assessment_epas)
         IN  IF r.ok
             THEN Result(Created(T, r.assessment_epas, id), T, r.assessment_epas)
             ELSE Result(ServerError, T, r.assessment_epas)

\* ------------------------------------------------------------------ login
LOCKOUT_THRESHOLD == 5

LOCKOUT_DURATION == 3600

\* The accounts a login names: kim is a faculty member, dee a deactivated
\* trainee. An address is matched as it is written.
Accounts ==
    [kim |-> [email |-> "kim@x.org", password |-> "right", deactivated |-> FALSE],
     dee |-> [email |-> "dee@x.org", password |-> "right", deactivated |-> TRUE]]

\* The addresses of request bodies: "" is a body without the field.
Emails == {"kim@x.org", "KIM@x.org", "dee@x.org", ""}

Passwords == {"right", "wrong", ""}

\* email.lower()
Lower(email) == IF email = "KIM@x.org" THEN "kim@x.org" ELSE email

\* get_cache_key: one entry per lower-cased address
CacheKeys == {Lower(e) : e \in Emails \ {""}}

\* A cache without its entry: cache.delete, or an entry never set.
NoEntry == [attempts |-> 0, expires |-> 0]

\* cache.get(cache_key, 0): an entry is gone once its timeout has passed
CacheGet(c, key, t) == IF c[key].expires > t THEN c[key].attempts ELSE 0

\* check_login_attempts with the comparison off by one
CheckLoginAttemptsOver(c, email, t) == ~(CacheGet(c, Lower(email), t) > LOCKOUT_THRESHOLD)

\* check_login_attempts: allowed
CheckLoginAttempts(c, email, t) == ~(CacheGet(c, Lower(email), t) >= LOCKOUT_THRESHOLD)

\* record_failed_attempt that keeps the expiry of a live entry
RecordFailedAttemptFixedWindow(c, email, t) ==
    [c EXCEPT ![Lower(email)] =
        [attempts |-> CacheGet(c, Lower(email), t) + 1,
         expires |-> IF c[Lower(email)].expires > t THEN c[Lower(email)].expires
                     ELSE t + LOCKOUT_DURATION]]

\* record_failed_attempt: the cache after it
RecordFailedAttempt(c, email, t) ==
    [c EXCEPT ![Lower(email)] =
        [attempts |-> CacheGet(c, Lower(email), t) + 1, expires |-> t + LOCKOUT_DURATION]]

\* record_failed_attempt: the attempts that remain
Remaining(c, email, t) == LOCKOUT_THRESHOLD - (CacheGet(c, Lower(email), t) + 1)

\* reset_login_attempts
ResetLoginAttempts(c, email) == [c EXCEPT ![Lower(email)] = NoEntry]

\* authenticate(email=email, password=password): the account, or None
Authenticate(email, password) ==
    IF \E a \in DOMAIN Accounts :
          Accounts[a].email = email /\ Accounts[a].password = password
    THEN CHOOSE a \in DOMAIN Accounts :
            Accounts[a].email = email /\ Accounts[a].password = password
    ELSE None

LoginAnswer(response, c, tk) == [response |-> response, cache |-> c, tokens |-> tk]

LoginError(code, detail) == Response(code, None, NoDays, NoDays, detail, {})

\* login that leaves the counter as it is when it succeeds
LoginResultNoReset(c, tk, email, password, t) ==
    IF email = "" \/ password = ""
    THEN LoginAnswer(LoginError(400, "Email and password required"), c, tk)
    ELSE IF ~CheckLoginAttempts(c, email, t)
    THEN LoginAnswer(LoginError(429, "Account locked"), c, tk)
    ELSE IF Authenticate(email, password) # None
    THEN IF Accounts[Authenticate(email, password)].deactivated
         THEN LoginAnswer(LoginError(401, "Account has been deactivated."), c, tk)
         ELSE LoginAnswer(Response(200, None, NoDays, NoDays, "",
                                   {[token |-> Authenticate(email, password)]}),
                          c, tk \cup {Authenticate(email, password)})
    ELSE LoginAnswer(Response(401, None, NoDays, NoDays, "Invalid credentials",
                              {[attempts_warning |-> Remaining(c, email, t)]}),
                     RecordFailedAttempt(c, email, t), tk)

\* UserViewSet.login: the response, the cache and the tokens after it
LoginResult(c, tk, email, password, t) ==
    IF email = "" \/ password = ""
    THEN LoginAnswer(LoginError(400, "Email and password required"), c, tk)
    ELSE IF ~CheckLoginAttempts(c, email, t)
    THEN LoginAnswer(LoginError(429, "Account locked"), c, tk)
    ELSE IF Authenticate(email, password) # None
    THEN IF Accounts[Authenticate(email, password)].deactivated
         THEN LoginAnswer(LoginError(401, "Account has been deactivated."), c, tk)
         ELSE LoginAnswer(Response(200, None, NoDays, NoDays, "",
                                   {[token |-> Authenticate(email, password)]}),
                          ResetLoginAttempts(c, email),
                          tk \cup {Authenticate(email, password)})
    ELSE LoginAnswer(Response(401, None, NoDays, NoDays, "Invalid credentials",
                              {[attempts_warning |-> Remaining(c, email, t)]}),
                     RecordFailedAttempt(c, email, t), tk)

\* No attempt was answered 429.
Never == -1

\* What happened to an address since its last successful login: the instants
\* of the failed attempts that were answered "Invalid credentials" and the
\* instant of the last attempt answered 429; and what the last successful
\* login wiped: the number of those failures and the instant of that 429.
NoHistory == [failed |-> <<>>, rejected |-> Never, cleared |-> 0, was_locked |-> Never]

NoCredentials == [email |-> "", password |-> ""]

\* ------------------------------------------------------------------ session timeout
SESSION_TIMEOUT_MINUTES == 15

\* timedelta(minutes=SESSION_TIMEOUT_MINUTES), in seconds
SessionTimeout == SESSION_TIMEOUT_MINUTES * 60

\* The timeout of the cache entry token_last_activity_<key>
ActivityTimeout == SESSION_TIMEOUT_MINUTES * 60 * 2

\* The keys a request can carry: the token of an account is named after it.
TokenKeys == DOMAIN Accounts

\* A cache without the entry of a token.
NoActivity == [last_activity |-> Never, expires |-> 0]

\* cache.get(cache_key): None (here Never) once the timeout has passed
ActivityGet(a, key, t) == IF a[key].expires > t THEN a[key].last_activity ELSE Never

\* clear_session_activity
ClearSessionActivity(a, key) == [a EXCEPT ![key] = NoActivity]

AuthenticationFailed(detail, a) ==
    [response |-> Response(401, None, NoDays, NoDays, detail, {}), activity |-> a]

\* ExpiringTokenAuthentication.authenticate_credentials followed by the view
\* (GET /api/users/me/): the response and the activity cache after it
AuthenticateCredentials(a, tk, key, t) ==
    IF key \notin tk THEN AuthenticationFailed("Invalid token.", a)
    ELSE IF Accounts[key].deactivated
    THEN AuthenticationFailed("User account has been deactivated.", a)
    ELSE IF ActivityGet(a, key, t) # Never /\ t - ActivityGet(a, key, t) > SessionTimeout
    THEN AuthenticationFailed("Session expired", ClearSessionActivity(a, key))
    ELSE [response |-> Response(200, None, NoDays, NoDays, "", {}),
          activity |-> [a EXCEPT ![key] =
                           [last_activity |-> t, expires |-> t + ActivityTimeout]]]

\* What is known of a token since the last login of its user: the instant of
\* its last accepted request, and whether a request was rejected as expired.
NoSession == [previous |-> Never, expired |-> FALSE]

\* ------------------------------------------------------------------ state
NoRequest ==
    [op |-> "none", actor |-> None, id |-> 0, at |-> 0, existed |-> FALSE,
     visible |-> FALSE, evaluator |-> None, created_at |-> 0, ids |-> {},
     response |-> Response(0, None, NoDays, NoDays, "", {})]

\* What the request found before it acted, and what it answered.
Handled(op, u, id, ids, response) ==
    [op |-> op, actor |-> u, id |-> id, at |-> now,
     existed |-> id \in DOMAIN assessments,
     visible |-> id \in GetQueryset(assessments, assessment_epas, u, NoParams),
     evaluator |-> IF id \in DOMAIN assessments THEN assessments[id].evaluator ELSE None,
     created_at |-> IF id \in DOMAIN assessments THEN assessments[id].created_at ELSE 0,
     ids |-> ids,
     response |-> response]

\* The empty store.
EmptyStore ==
    /\ assessments = <<>>
    /\ assessment_epas = {}
    /\ nextId = 1
    /\ now = 0
    /\ creating = {}
    /\ requested = <<>>
    /\ last = NoRequest
    /\ recording = {}
    /\ session = [k \in TokenKeys |-> NoSession]
    /\ activity = [k \in TokenKeys |-> NoActivity]
    /\ credentials = NoCredentials
    /\ history = [k \in CacheKeys |-> NoHistory]
    /\ tokens = {}
    /\ cache = [k \in CacheKeys |-> NoEntry]
    /\ marking = {}
    /\ destroying = {}
    /\ epas = Epas

Init == users = BaseUsers /\ EmptyStore

\* A request on one Assessment, handled in one step.
Request(op, u, id, r) ==
    /\ assessments' = r.assessments
    /\ assessment_epas' = r.assessment_epas
    /\ last' = Handled(op, u, id, {}, r.response)
    /\ UNCHANGED <<users, recording, session, activity, credentials, history, tokens, cache, marking, destroying, epas, nextId, now, creating, requested>>

\* A list request: it returns the rows of ids.
ListRequest(op, u, ids) ==
    /\ last' = Handled(op, u, 0, ids, Response(200, None, NoDays, NoDays, "", {}))
    /\ UNCHANGED <<users, recording, session, activity, credentials, history, tokens, cache, marking, destroying, epas, assessments, assessment_epas, nextId, now, creating, requested>>

List(u, p) == ListRequest("list", u, GetQueryset(assessments, assessment_epas, u, p))

MyAssessmentsList(u, p) ==
    ListRequest("my_assessments", u, MyAssessments(assessments, assessment_epas, u, p))

GivenAssessmentsList(u) ==
    ListRequest("given_assessments", u, GivenAssessments(assessments, u))

ReceivedAssessmentsList(u, p) ==
    ListRequest("received_assessments", u,
                ReceivedAssessments(assessments, assessment_epas, u, p))

Retrieve(u, id) ==
    Request("retrieve", u, id, RetrieveResult(assessments, assessment_epas, u, id))

Update(u, id, data) ==
    Request("update", u, id,
            UpdateResult(assessments, assessment_epas, u, id, data, now))

PartialUpdate(u, id, data) ==
    Request("partial_update", u, id,
            PartialUpdateResult(assessments, assessment_epas, u, id, data, now))

Destroy(u, id) ==
    Request("destroy", u, id, DestroyResult(assessments, assessment_epas, u, id, now))

MarkRead(u, id) ==
    Request("mark_read", u, id, MarkReadResult(assessments, assessment_epas, u, id))

\* POST /assessments handled in one step
Create(u, data) ==
    /\ nextId <= MaxAssessments
    /\ LET r == CreateResult(assessments, assessment_epas, nextId, data, now)
       IN  /\ assessments' = r.assessments
           /\ assessment_epas' = r.assessment_epas
           /\ last' = Handled("create", u, nextId, {}, r.response)
           /\ nextId' = IF r.response.code = 400 THEN nextId ELSE nextId + 1
           /\ requested' =
                 IF r.response.code = 400 THEN requested
                 ELSE Append(requested, data.assessment_epas)
    /\ UNCHANGED <<users, recording, session, activity, credentials, history, tokens, cache, marking, destroying, epas, now, creating>>

\* timezone.now() moves on to a later instant
Tick(t) ==
    /\ t > now
    /\ now' = t
    /\ UNCHANGED <<users, recording, session, activity, credentials, history, tokens, cache, marking, destroying, epas, assessments, assessment_epas, nextId, creating, requested, last>>

\* ------------------------------------------------------------------ Spec
\* The list endpoints over a store that create, update and delete requests
\* change, at one instant.
Date1 == <<2024, 3, 15>>

Post(trainee, evaluator, status) ==
    CreateData(trainee, evaluator, Date1, status, "", <<EpaData("e1", 3)>>)

Put(trainee, evaluator, status) ==
    [NoData EXCEPT !.trainee = trainee, !.evaluator = evaluator,
                   !.shift_date = Date1, !.status = status]

Patch(status) == [NoData EXCEPT !.status = status]

\* (trainee, evaluator) of the bodies: inside one program, across two
\* programs, written by an admin, and written by a user without a program.
Pairs == {<<"t1", "f1">>, <<"t2", "f1">>, <<"t1", "a1">>, <<"t1", "nf">>}

Posts == {Post(pr[1], pr[2], st) : pr \in Pairs, st \in {None, "submitted"}}

Puts == {Put(pr[1], pr[2], st) : pr \in Pairs, st \in {"draft", "submitted"}}

Patches == {Patch(st) : st \in {"draft", "submitted"}}

Readers == {"t1", "f1", "a1", "sa", "nf"}

Writers == {"f1", "a1"}

\* every id the store can hold, and one it never holds
TargetIds == 1 .. MaxAssessments + 1

Next ==
    \/ \E data \in Posts : Create(data.evaluator, data)
    \/ \E u \in Readers : List(u, NoParams)
    \/ \E u \in Readers : MyAssessmentsList(u, NoParams)
    \/ \E u \in Readers : GivenAssessmentsList(u)
    \/ \E u \in Readers : ReceivedAssessmentsList(u, NoParams)
    \/ \E u \in Writers, id \in DOMAIN assessments, data \in Puts : Update(u, id, data)
    \/ \E u \in Writers, id \in DOMAIN assessments, data \in Patches :
          PartialUpdate(u, id, data)
    \/ \E u \in Writers, id \in DOMAIN assessments : Destroy(u, id)

Spec == Init /\ [][Next]_vars

\* The query strings the list endpoint is asked with.
Date2 == <<2024, 3, 16>>

BadDate == <<15, 3, 2024>>

AllQueries ==
    {[trainee_id |-> tr, evaluator_id |-> ev, epa_id |-> ep,
      start_date |-> sd, end_date |-> ed] :
        tr \in {None, "t1"}, ev \in {None, "f1"}, ep \in {None, "e1"},
        sd \in {<<>>, Date1, BadDate}, ed \in {<<>>, Date1, Date2}}

ListOf(u, p) == GetQueryset(assessments, assessment_epas, u, p)

\* C1: every Assessment the list returns to an actor with an assigned program
\* is about a trainee of that program.
C1_ProgramIsolation ==
    (last.op = "list" /\ users[last.actor].program # None) =>
        \A id \in last.ids :
            users[assessments[id].trainee].program = users[last.actor].program

\* C2: every draft the list returns to an actor was authored by that actor,
\* whatever the actor's role and the query string.
C2_NoForeignDrafts ==
    /\ \A u \in UserIds, p \in AllQueries :
          \A id \in ListOf(u, p) :
              assessments[id].status = "draft" => assessments[id].evaluator = u
    /\ last.op = "list" =>
          \A id \in last.ids :
              assessments[id].status = "draft" => assessments[id].evaluator = last.actor

\* The admin of program P1 has listed: the list holds the admin's own draft
\* and leaves out the draft another evaluator wrote about a trainee of P1.
C2_Witness ==
    /\ last.op = "list"
    /\ last.actor = "a1"
    /\ \E id \in last.ids : assessments[id].status = "draft"
    /\ \E id \in DOMAIN assessments \ last.ids :
          /\ assessments[id].status = "draft"
          /\ assessments[id].evaluator = "f1"
          /\ assessments[id].trainee = "t1"

\* C6: the list of a system-admin holds every submitted Assessment and the
\* system-admin's own drafts, and nothing else.
C6_SystemAdminSeesSubmitted ==
    (last.op = "list" /\ users[last.actor].role = "system-admin") =>
        last.ids =
            {id \in DOMAIN assessments :
                \/ assessments[id].status = "submitted"
                \/ /\ assessments[id].status = "draft"
                   /\ assessments[id].evaluator = last.actor}

\* C7: my_assessments, given_assessments and received_assessments return to
\* an actor only Assessments that the list returns to the same actor.
C7_ReadsThroughResolver ==
    last.op \in {"my_assessments", "given_assessments", "received_assessments"} =>
        last.ids \subseteq ListOf(last.actor, NoParams)

\* ------------------------------------------------------------------ SpecNoProgram
\* The list endpoints asked by the user that has no program, who has any of
\* the roles, has evaluated Assessments and is the trainee of others.
NoProgramPairs == {<<"t1", "nf">>, <<"nf", "f1">>, <<"nf", "nf">>}

NoProgramPosts ==
    {Post(pr[1], pr[2], st) : pr \in NoProgramPairs, st \in {None, "submitted"}}

InitNoProgram == users \in UserTables /\ EmptyStore

NextNoProgram ==
    \/ \E data \in NoProgramPosts : Create(data.evaluator, data)
    \/ \E u \in {"nf", "na"}, p \in AllQueries : List(u, p)
    \/ \E id \in DOMAIN assessments, data \in Patches : PartialUpdate("f1", id, data)
    \/ \E id \in DOMAIN assessments : Destroy("f1", id)

SpecNoProgram == InitNoProgram /\ [][NextNoProgram]_vars

\* C8: an actor whose program is unset gets the empty list, whatever the
\* actor's role, the query string and the store.
C8_NoProgramEmpty ==
    /\ \A u \in UserIds, p \in AllQueries :
          users[u].program = None => ListOf(u, p) = {}
    /\ (last.op = "list" /\ users[last.actor].program = None) => last.ids = {}

\* The user without a program has listed while the store holds a submitted
\* Assessment that user evaluated and one that user received.
C8_Witness ==
    /\ last.op = "list"
    /\ last.actor = "nf"
    /\ \E id \in DOMAIN assessments :
          assessments[id].evaluator = "nf" /\ assessments[id].status = "submitted"
    /\ \E id \in DOMAIN assessments :
          assessments[id].trainee = "nf" /\ assessments[id].status = "submitted"

\* ------------------------------------------------------------------ SpecGuard
\* Edit and delete requests as time passes: the evaluator, the admin of the
\* program and the trainee ask at the instants around the 7-day boundary.
GuardPosts == {Post("t1", "f1", st) : st \in {None, "submitted"}}

GuardPuts == {Put("t1", "f1", st) : st \in {"draft", "submitted"}}

GuardActors == {"f1", "a1", "t1"}

GuardOps == {"update", "partial_update", "destroy"}

NextGuard ==
    \/ \E data \in GuardPosts : Create("f1", data)
    \/ \E t \in Instants : Tick(t)
    \/ \E u \in GuardActors, id \in DOMAIN assessments, data \in GuardPuts :
          Update(u, id, data)
    \/ \E u \in GuardActors, id \in DOMAIN assessments, data \in Patches :
          PartialUpdate(u, id, data)
    \/ \E u \in GuardActors, id \in DOMAIN assessments : Destroy(u, id)

SpecGuard == Init /\ [][NextGuard]_vars

\* The age of the Assessment the last request was about, when it arrived.
LastAge == last.at - last.created_at

\* What the guard decided: the status code up to success, the error_code and
\* the two numbers of a too_old answer.
Decision(r) ==
    <<IF r.response.code \in {403, 404} THEN r.response.code ELSE 200,
      r.response.error_code, r.response.days_old, r.response.max_age_days>>

C5_Answer ==
    (last.op \in GuardOps /\ last.visible) =>
        /\ last.evaluator # last.actor =>
              (last.response.code = 403 /\ last.response.error_code = "not_evaluator")
        /\ (last.evaluator = last.actor /\ last.response.code # 200) =>
              /\ last.response.code = 403
              /\ last.response.error_code = "too_old"
              /\ last.response.max_age_days = 7
              /\ last.response.days_old >= 7
              /\ last.response.days_old * DAY <= LastAge
              /\ LastAge < (last.response.days_old + 1) * DAY

C5_Untouched ==
    (last'.op \in GuardOps /\ last'.response.code = 403) =>
        /\ assessments' = assessments
        /\ assessment_epas' = assessment_epas

\* C5: a rejected update, partial_update or delete answers 403 with
\* not_evaluator when the actor is not the evaluator, whatever the age, and
\* otherwise with too_old, the age in whole days (at least 7) and
\* max_age_days 7; the Assessment, its rows and its acknowledged_by set stay
\* as they were.
C5_RejectionReported == [](C5_Answer) /\ [][C5_Untouched]_vars

\* A delete by someone who is not the evaluator, of an Assessment older than
\* 7 days, was rejected with not_evaluator.
C5_Witness ==
    /\ last.op = "destroy"
    /\ last.visible
    /\ last.evaluator # last.actor
    /\ LastAge > 7 * DAY
    /\ last.response.error_code = "not_evaluator"
    /\ last.id \in DOMAIN assessments

\* ------------------------------------------------------------------ SpecObject
\* The requests on one Assessment by id, from actors inside and outside its
\* scope, on ids the store holds and on one it does not.
ObjectPairs == {<<"t1", "f1">>, <<"t2", "f2">>}

ObjectPosts ==
    {Post(pr[1], pr[2], st) : pr \in ObjectPairs, st \in {None, "submitted"}}

ObjectActors == {"f1", "f2", "a1"}

ObjectOps == {"retrieve", "update", "partial_update", "destroy", "mark_read"}

ObjectPut == Put("t1", "f1", "submitted")

ObjectPatch == Patch("draft")

NextObject ==
    \/ \E data \in ObjectPosts : Create(data.evaluator, data)
    \/ \E u \in ObjectActors, id \in TargetIds : Retrieve(u, id)
    \/ \E u \in ObjectActors, id \in TargetIds : Update(u, id, ObjectPut)
    \/ \E u \in ObjectActors, id \in TargetIds : PartialUpdate(u, id, ObjectPatch)
    \/ \E u \in ObjectActors, id \in TargetIds : Destroy(u, id)
    \/ \E u \in ObjectActors, id \in TargetIds : MarkRead(u, id)

SpecObject == Init /\ [][NextObject]_vars

\* The five answers an actor gets about one id over the tables S, E.
Answers(S, E, u, id) ==
    <<RetrieveResult(S, E, u, id).response,
      UpdateResult(S, E, u, id, ObjectPut, now).response,
      PartialUpdateResult(S, E, u, id, ObjectPatch, now).response,
      DestroyResult(S, E, u, id, now).response,
      MarkReadResult(S, E, u, id).response>>

\* The rows a store can hold in place of one.
ObjectRows ==
    {[trainee |-> pr[1], evaluator |-> pr[2], shift_date |-> Date1, status |-> st,
      private_comments |-> "", acknowledged_by |-> {}, created_at |-> now] :
        pr \in ObjectPairs, st \in {"draft", "submitted"}}

\* The tables with the Assessment id removed.
Without(id) == PerformDestroy(assessments, assessment_epas, id)

C9_SameAsAbsent ==
    /\ (last.op \in ObjectOps /\ ~last.visible) => last.response = NotFound
    /\ \A u \in ObjectActors, id \in TargetIds :
          LET here == Answers(assessments, assessment_epas, u, id)
          IN  \A hid \in DOMAIN assessments \ ListOf(u, NoParams) :
                  /\ here = Answers(Without(hid).assessments,
                                    Without(hid).assessment_epas, u, id)
                  /\ \A row \in ObjectRows :
                        LET T == [assessments EXCEPT ![hid] = row]
                        IN  hid \notin GetQueryset(T, assessment_epas, u, NoParams) =>
                                here = Answers(T, assessment_epas, u, id)

C9_Untouched ==
    (last'.op \in ObjectOps /\ ~last'.visible) =>
        /\ assessments' = assessments
        /\ assessment_epas' = assessment_epas

\* C9: retrieve, update, partial_update, delete and mark-read of an id that
\* exists outside the actor's scope answer the 404 of an id that does not
\* exist and change nothing; stores that differ only outside the actor's
\* scope give the actor the same answers.
C9_OutOfScopeIsAbsent == [](C9_SameAsAbsent) /\ [][C9_Untouched]_vars

\* The admin of program P1 asked to mark as read a submitted Assessment about
\* a trainee of program P2, and got 404.
C9_Witness ==
    /\ last.op = "mark_read"
    /\ last.actor = "a1"
    /\ last.existed
    /\ ~last.visible
    /\ last.response.code = 404
    /\ assessments[last.id].status = "submitted"

\* ------------------------------------------------------------------ SpecCreate
\* POST /assessments statement by statement (each ORM call commits on its
\* own: no transaction spans the request), with readers in between.

\* serializer.is_valid(), then Assessment.objects.create(**validated_data)
CreateBegin(u, data) ==
    /\ nextId <= MaxAssessments
    /\ IF ~CreateValid(data)
       THEN /\ last' = Handled("create", u, nextId, {}, BadRequest)
            /\ UNCHANGED <<assessments, nextId, creating, requested>>
       ELSE /\ assessments' = InsertAssessment(assessments, nextId, data, now)
            /\ creating' =
                  creating \cup {[actor |-> u, id |-> nextId, rows |-> data.assessment_epas]}
            /\ requested' = Append(requested, data.assessment_epas)
            /\ nextId' = nextId + 1
            /\ UNCHANGED last
    /\ UNCHANGED <<users, recording, session, activity, credentials, history, tokens, cache, marking, destroying, epas, assessment_epas, now>>

\* One turn of the loop: AssessmentEPA.objects.create(...), which raises
\* IntegrityError on a second row for the same EPA, or on a row for an EPA
\* deleted since the body was validated, and ends the request.
CreateRow(c) ==
    /\ c \in creating
    /\ c.rows # <<>>
    /\ IF Duplicate(assessment_epas, c.id, Head(c.rows)) \/ Head(c.rows).epa \notin epas
       THEN /\ creating' = creating \ {c}
            /\ last' = Handled("create", c.actor, c.id, {}, ServerError)
            /\ UNCHANGED assessment_epas
       ELSE /\ assessment_epas' = InsertEPA(assessment_epas, c.id, Head(c.rows))
            /\ creating' = (creating \ {c}) \cup {[c EXCEPT !.rows = Tail(c.rows)]}
            /\ UNCHANGED last
    /\ UNCHANGED <<users, recording, session, activity, credentials, history, tokens, cache, marking, destroying, epas, assessments, nextId, now, requested>>

\* return assessment: the 201 response
CreateEnd(c) ==
    /\ c \in creating
    /\ c.rows = <<>>
    /\ creating' = creating \ {c}
    /\ last' = Handled("create", c.actor, c.id, {},
                       Created(assessments, assessment_epas, c.id))
    /\ UNCHANGED <<users, recording, session, activity, credentials, history, tokens, cache, marking, destroying, epas, assessments, assessment_epas, nextId, now, requested>>

CreatePosts ==
    {CreateData("t1", "f1", Date1, st, "", rows) :
        st \in {None, "submitted"},
        rows \in {<<EpaData("e1", 3)>>,
                  <<EpaData("e1", 3), EpaData("e2", 4)>>,
                  <<EpaData("e1", 3), EpaData("e1", 4)>>,
                  <<EpaData("e1", 6)>>}}

NextCreate ==
    \/ \E data \in CreatePosts : CreateBegin("f1", data)
    \/ \E c \in creating : CreateRow(c)
    \/ \E c \in creating : CreateEnd(c)
    \/ \E u \in {"f1", "t1"}, id \in DOMAIN assessments : Retrieve(u, id)

SpecCreate == Init /\ [][NextCreate]_vars

\* The rows a create request asked for.
RequestedRows(id) == {requested[id][i] : i \in 1 .. Len(requested[id])}

\* C3: a create request whose rows fail midway leaves no Assessment behind,
\* and a reader never gets a new Assessment with only part of its rows.
C3_CreateAllOrNothing ==
    /\ (last.op = "create" /\ last.response.code = 500) =>
          last.id \notin DOMAIN assessments
    /\ (last.op = "retrieve" /\ last.response.code = 200) =>
          \A d \in last.response.data : d.assessment_epas = RequestedRows(last.id)

\* ------------------------------------------------------------------ competency grid
\* The curriculum (its CRUD is outside the model): the program of each EPA,
\* and each SubCompetency with the program of its CoreCompetency and the
\* EPAs its SubCompetencyEPA rows map to it.
EpaProgram == [e1 |-> "P1", e2 |-> "P1"]

SubCompetencies ==
    [PC1 |-> [core_competency |-> "PC", program |-> "P1", epas |-> {"e1"}],
     PC2 |-> [core_competency |-> "PC", program |-> "P1", epas |-> {"e1", "e2"}],
     MK1 |-> [core_competency |-> "MK", program |-> "P2", epas |-> {"e2"}]]

\* round() of the fraction n / d: to the nearest integer, a tie to the even one
RoundHalfEven(n, d) ==
    LET q == n \div d
        r == n % d
    IN  IF 2 * r < d THEN q
        ELSE IF 2 * r > d THEN q + 1
        ELSE IF q % 2 = 0 THEN q ELSE q + 1

Min(a, b) == IF a <= b THEN a ELSE b

Max(a, b) == IF a >= b THEN a ELSE b

RECURSIVE SumLevels(_)
SumLevels(pairs) ==
    IF pairs = {} THEN 0
    ELSE LET x == CHOOSE y \in pairs : TRUE
         IN  x[2] + SumLevels(pairs \ {x})

\* average_entrustment of a sub-competency without data, in hundredths
NoAverage == -1

\* milestone_level of a sub-competency without data, in halves
NoMilestone == -1

\* Assessment.objects.filter(Q(trainee=trainee, status='submitted') & dates)
TraineeAssessments(S, trainee, start, end) ==
    {id \in DOMAIN S :
        /\ S[id].trainee = trainee
        /\ S[id].status = "submitted"
        /\ start # <<>> => DateLeq(Strptime(start), S[id].shift_date)
        /\ end # <<>> => DateLeq(S[id].shift_date, Strptime(end))}

\* milestone_level rounded up to the next half
MilestoneLevelUp(sum, n) == Min(10, Max(2, (2 * sum + n - 1) \div n))

\* min(5.0, max(1.0, round(avg * 2) / 2)) for avg = sum / n, in halves
MilestoneLevel(sum, n) == Min(10, Max(2, RoundHalfEven(2 * sum, n)))

\* One entry of subcompetency_data that reports no data as zero
SubCompetencyDataZero(S, E, ids, sc, program) ==
    LET mapped_epas == {e \in SubCompetencies[sc].epas : EpaProgram[e] = program}
        joined == {r \in E : r.assessment \in ids /\ r.epa \in mapped_epas}
        pairs == {<<r.assessment, r.entrustment_level>> : r \in joined}
        n == Cardinality(pairs)
    IN  [code |-> sc,
         core_competency_code |-> SubCompetencies[sc].core_competency,
         average_entrustment |->
            IF n = 0 THEN 0 ELSE RoundHalfEven(100 * SumLevels(pairs), n),
         milestone_level |->
            IF n = 0 THEN NoMilestone ELSE MilestoneLevel(SumLevels(pairs), n),
         total_assessments |-> Cardinality(joined),
         mapped_epas_count |-> Cardinality(mapped_epas),
         has_data |-> n # 0]

\* One entry of subcompetency_data. The average is taken over the DISTINCT
\* rows (assessment, entrustment_level) of the join with the mapped EPAs, the
\* count over all joined rows. average_entrustment is in hundredths,
\* milestone_level in halves.
SubCompetencyData(S, E, ids, sc, program) ==
    LET mapped_epas == {e \in SubCompetencies[sc].epas : EpaProgram[e] = program}
        joined == {r \in E : r.assessment \in ids /\ r.epa \in mapped_epas}
        pairs == {<<r.assessment, r.entrustment_level>> : r \in joined}
        n == Cardinality(pairs)
    IN  [code |-> sc,
         core_competency_code |-> SubCompetencies[sc].core_competency,
         average_entrustment |->
            IF n = 0 THEN NoAverage ELSE RoundHalfEven(100 * SumLevels(pairs), n),
         milestone_level |->
            IF n = 0 THEN NoMilestone ELSE MilestoneLevel(SumLevels(pairs), n),
         total_assessments |-> Cardinality(joined),
         mapped_epas_count |-> Cardinality(mapped_epas),
         has_data |-> n # 0]

\* The body of the 200 response (overall_average_entrustment and
\* coverage_percentage, which derive from the entries, are left out).
GridData(S, E, trainee, start, end) ==
    LET ids == TraineeAssessments(S, trainee, start, end)
        grid == {SubCompetencyData(S, E, ids, sc, users[trainee].program) :
                    sc \in {x \in DOMAIN SubCompetencies :
                              SubCompetencies[x].program = users[trainee].program}}
    IN  [trainee |-> trainee,
         competencies |-> grid,
         total_subcompetencies |-> Cardinality(grid),
         subcompetencies_with_data |-> Cardinality({d \in grid : d.has_data}),
         total_assessments |-> Cardinality(ids)]

GridError(code, detail) == Response(code, None, NoDays, NoDays, detail, {})

\* analytics.views.competency_grid_data
CompetencyGridResponse(S, E, u, trainee_id, start, end) ==
    IF trainee_id = None
    THEN GridError(400, "trainee_id parameter is required")
    ELSE IF trainee_id \notin DOMAIN users \/ users[trainee_id].role # "trainee"
    THEN GridError(404, "Trainee not found")
    ELSE IF users[u].organization # users[trainee_id].organization
    THEN GridError(403, "Access denied")
    ELSE IF start # <<>> /\ Strptime(start) = ValueError
    THEN GridError(400, "Invalid start_date format. Use YYYY-MM-DD")
    ELSE IF end # <<>> /\ Strptime(end) = ValueError
    THEN GridError(400, "Invalid end_date format. Use YYYY-MM-DD")
    ELSE IF users[trainee_id].program = None
    THEN GridError(400, "Trainee is not assigned to a program")
    ELSE Response(200, None, NoDays, NoDays, "", {GridData(S, E, trainee_id, start, end)})

\* GET /analytics/competency-grid
CompetencyGrid(u, trainee_id, start, end) ==
    /\ last' = Handled("competency_grid", u, 0,
                       IF trainee_id \in DOMAIN users
                          /\ ~(start # <<>> /\ Strptime(start) = ValueError)
                          /\ ~(end # <<>> /\ Strptime(end) = ValueError)
                       THEN TraineeAssessments(assessments, trainee_id, start, end)
                       ELSE {},
                       CompetencyGridResponse(assessments, assessment_epas,
                                              u, trainee_id, start, end))
    /\ UNCHANGED <<users, recording, session, activity, credentials, history, tokens, cache, marking, destroying, epas, assessments, assessment_epas, nextId, now, creating, requested>>

\* ------------------------------------------------------------------ SpecGrid
GridPosts ==
    {CreateData("t1", "f1", Date1, st, "", rows) :
        st \in {None, "submitted"},
        rows \in {<<EpaData("e1", 3)>>, <<EpaData("e1", 4), EpaData("e2", 2)>>}}
    \cup {CreateData("t2", "f2", Date1, "submitted", "", <<EpaData("e2", 5)>>)}

GridActors == {"f1", "f2", "x3"}

GridTrainees == {None, "t1", "t2", "nf", "zz"}

GridDates == {<<>>, Date2, BadDate}

NextGrid ==
    \/ \E data \in GridPosts : Create(data.evaluator, data)
    \/ \E u \in GridActors, t \in GridTrainees, start \in GridDates :
          CompetencyGrid(u, t, start, <<>>)
    \/ \E u \in GridActors, t \in GridTrainees, end \in GridDates :
          CompetencyGrid(u, t, <<>>, end)

SpecGrid == InitNoProgram /\ [][NextGrid]_vars

\* C10: the competency grid of a trainee is answered only to an actor of the
\* trainee's program.
C10_GridProgramIsolation ==
    (last.op = "competency_grid" /\ last.response.code = 200) =>
        \A d \in last.response.data :
            users[last.actor].program = users[d.trainee].program

\* ------------------------------------------------------------------ SpecStatus
\* The status field under create, update and partial_update, written by a
\* faculty member and by a trainee, with every value the serializers accept.
StatusCreators == {"f1", "t1"}

StatusPosts ==
    {CreateData("t1", u, Date1, st, "", <<EpaData("e1", 3)>>) :
        u \in StatusCreators, st \in {None} \cup STATUS_CHOICES}

StatusPuts == {Put("t1", "f1", st) : st \in STATUS_CHOICES}

StatusPatches == {Patch(st) : st \in STATUS_CHOICES}

NextStatus ==
    \/ \E data \in StatusPosts : Create(data.evaluator, data)
    \/ \E id \in DOMAIN assessments, data \in StatusPuts : Update("f1", id, data)
    \/ \E id \in DOMAIN assessments, data \in StatusPatches :
          PartialUpdate("f1", id, data)

SpecStatus == Init /\ [][NextStatus]_vars

\* The order draft < submitted < locked.
StatusRank(st) == IF st = "draft" THEN 1 ELSE IF st = "submitted" THEN 2 ELSE 3

\* C11: no step moves the status of an Assessment backwards in the order
\* draft < submitted < locked.
C11_StatusMonotonic ==
    [][\A id \in DOMAIN assessments \cap DOMAIN assessments' :
          StatusRank(assessments'[id].status) >= StatusRank(assessments[id].status)]_vars

\* C12: no Assessment has status locked, and a created Assessment is draft
\* or submitted.
C12_LockedUnreachable ==
    \A id \in DOMAIN assessments : assessments[id].status \in {"draft", "submitted"}

\* C13: a create request of a trainee is answered 403 or 400 and leaves no
\* Assessment and no AssessmentEPA row.
C13_TraineeCannotCreate ==
    (last.op = "create" /\ users[last.actor].role = "trainee") =>
        /\ last.response.code \in {400, 403}
        /\ last.id \notin DOMAIN assessments
        /\ \A r \in assessment_epas : r.assessment # last.id

\* ------------------------------------------------------------------ EPA delete
\* EPAViewSet.get_queryset with get_object: the EPA, when it is one of the
\* actor's program.
EpaGetObject(u, e) ==
    /\ e \in epas
    /\ users[u].program # None
    /\ EpaProgram[e] = users[u].program

\* AssessmentEPA.objects.filter(epa=epa).count()
AssessmentCount(E, e) == Cardinality({r \in E : r.epa = e})

EpaResponse(code, detail, e, n) ==
    Response(code, None, NoDays, NoDays, detail, {[epa |-> e, assessment_count |-> n]})

\* EPAViewSet.destroy up to its call of super().destroy: get_object and the
\* count of the AssessmentEPA rows of the EPA.
EpaDestroyCheck(u, e) ==
    /\ IF ~EpaGetObject(u, e)
       THEN /\ last' = Handled("epa_destroy", u, 0, {}, EpaResponse(404, "Not found.", e, 0))
            /\ UNCHANGED destroying
       ELSE IF AssessmentCount(assessment_epas, e) > 0
       THEN /\ last' = Handled("epa_destroy", u, 0, {},
                               EpaResponse(400, "Cannot delete this EPA", e,
                                           AssessmentCount(assessment_epas, e)))
            /\ UNCHANGED destroying
       ELSE /\ destroying' = destroying \cup {[actor |-> u, epa |-> e]}
            /\ UNCHANGED last
    /\ UNCHANGED <<users, recording, session, activity, credentials, history, tokens, cache, marking, epas, assessments, assessment_epas, nextId, now, creating, requested>>

\* super().destroy: get_object again, then instance.delete(), which deletes
\* the AssessmentEPA rows of the EPA with it (on_delete=CASCADE).
EpaDestroyDelete(d) ==
    /\ d \in destroying
    /\ destroying' = destroying \ {d}
    /\ IF ~EpaGetObject(d.actor, d.epa)
       THEN /\ last' = Handled("epa_destroy", d.actor, 0, {},
                               EpaResponse(404, "Not found.", d.epa, 0))
            /\ UNCHANGED <<epas, assessment_epas>>
       ELSE /\ epas' = epas \ {d.epa}
            /\ assessment_epas' = {r \in assessment_epas : r.epa # d.epa}
            /\ last' = Handled("epa_destroy", d.actor, 0, {},
                               EpaResponse(204, "", d.epa,
                                           AssessmentCount(assessment_epas, d.epa)))
    /\ UNCHANGED <<users, recording, session, activity, credentials, history, tokens, cache, marking, assessments, nextId, now, creating, requested>>

\* ------------------------------------------------------------------ SpecEpa
EpaPosts ==
    {CreateData("t1", "f1", Date1, "submitted", "", rows) :
        rows \in {<<EpaData("e1", 3)>>, <<EpaData("e2", 4)>>,
                  <<EpaData("e1", 3), EpaData("e2", 4)>>}}

EpaActors == {"a1", "f2"}

NextEpa ==
    \/ \E data \in EpaPosts : CreateBegin("f1", data)
    \/ \E c \in creating : CreateRow(c)
    \/ \E c \in creating : CreateEnd(c)
    \/ \E u \in EpaActors, e \in Epas : EpaDestroyCheck(u, e)
    \/ \E d \in destroying : EpaDestroyDelete(d)

SpecEpa == Init /\ [][NextEpa]_vars

\* C14: an EPA is deleted only when no AssessmentEPA references it, and the
\* deletion removes no AssessmentEPA row; a delete request answered 400
\* changes neither table.
C14_ReferencedEpaKept ==
    [][/\ epas' # epas =>
            /\ \A r \in assessment_epas : r.epa \in epas'
            /\ assessment_epas' = assessment_epas
       /\ (last' # last /\ last'.op = "epa_destroy" /\ last'.response.code = 400) =>
            /\ epas' = epas
            /\ assessment_epas' = assessment_epas]_vars

\* ------------------------------------------------------------------ mailbox
\* The default page size of the mailbox endpoints.
PageSize == 20

\* Paginator(queryset, page_size).get_page(1).object_list, the queryset being
\* ordered by -created_at
FirstPage(S, ids) ==
    IF Cardinality(ids) <= PageSize THEN ids
    ELSE CHOOSE P \in SUBSET ids :
            /\ Cardinality(P) = PageSize
            /\ \A a \in P, b \in ids \ P : S[a].created_at >= S[b].created_at

MailboxDenied ==
    Response(403, None, NoDays, NoDays,
             "Only leadership and admins can access the mailbox.", {})

\* The queryset of AssessmentViewSet.mailbox
MailboxQueryset(S, u) ==
    LET unread == {id \in DOMAIN S :
                     /\ S[id].private_comments # ""
                     /\ S[id].status = "submitted"
                     /\ u \notin S[id].acknowledged_by}
    IN  IF users[u].program # None
        THEN {id \in unread : users[S[id].trainee].program = users[u].program}
        ELSE unread

\* The queryset of AssessmentViewSet.mailbox_read
MailboxReadQueryset(S, u) ==
    LET read == {id \in DOMAIN S :
                   /\ S[id].private_comments # ""
                   /\ S[id].status = "submitted"
                   /\ u \in S[id].acknowledged_by}
    IN  IF users[u].program # None
        THEN {id \in read : users[S[id].trainee].program = users[u].program}
        ELSE read

\* mailbox_count with the program filter left out
UnreadCountGlobal(S, u) ==
    IF users[u].role \notin {"leadership", "admin"}
    THEN 0
    ELSE Cardinality({id \in DOMAIN S :
                        /\ S[id].private_comments # ""
                        /\ S[id].status = "submitted"
                        /\ u \notin S[id].acknowledged_by})

\* unread_count of AssessmentViewSet.mailbox_count
UnreadCount(S, u) ==
    IF users[u].role \notin {"leadership", "admin"}
    THEN 0
    ELSE IF users[u].program # None
    THEN Cardinality({id \in DOMAIN S :
                        /\ S[id].private_comments # ""
                        /\ S[id].status = "submitted"
                        /\ users[S[id].trainee].program = users[u].program
                        /\ u \notin S[id].acknowledged_by})
    ELSE Cardinality({id \in DOMAIN S :
                        /\ S[id].private_comments # ""
                        /\ S[id].status = "submitted"
                        /\ u \notin S[id].acknowledged_by})

\* The body of a mailbox response: 'count' and 'unread_count' (or
\* 'read_count') are both paginator.count.
MailboxBody(ids) == {[count |-> Cardinality(ids), unread_count |-> Cardinality(ids)]}

\* GET /assessments/mailbox (first page, default limit)
Mailbox(u) ==
    /\ last' =
          IF users[u].role \notin {"leadership", "admin"}
          THEN Handled("mailbox", u, 0, {}, MailboxDenied)
          ELSE Handled("mailbox", u, 0,
                       FirstPage(assessments, MailboxQueryset(assessments, u)),
                       Response(200, None, NoDays, NoDays, "",
                                MailboxBody(MailboxQueryset(assessments, u))))
    /\ UNCHANGED <<users, recording, session, activity, credentials, history, tokens, cache, assessments, assessment_epas, nextId, now, creating, requested,
                 epas, destroying, marking>>

\* GET /assessments/mailbox/read (first page, default limit)
MailboxRead(u) ==
    /\ last' =
          IF users[u].role \notin {"leadership", "admin"}
          THEN Handled("mailbox_read", u, 0, {}, MailboxDenied)
          ELSE Handled("mailbox_read", u, 0,
                       FirstPage(assessments, MailboxReadQueryset(assessments, u)),
                       Response(200, None, NoDays, NoDays, "",
                                MailboxBody(MailboxReadQueryset(assessments, u))))
    /\ UNCHANGED <<users, recording, session, activity, credentials, history, tokens, cache, assessments, assessment_epas, nextId, now, creating, requested,
                 epas, destroying, marking>>

\* GET /assessments/mailbox/count
MailboxCount(u) ==
    /\ last' = Handled("mailbox_count", u, 0, {},
                       Response(200, None, NoDays, NoDays, "",
                                {[unread_count |-> UnreadCount(assessments, u)]}))
    /\ UNCHANGED <<users, recording, session, activity, credentials, history, tokens, cache, assessments, assessment_epas, nextId, now, creating, requested,
                 epas, destroying, marking>>

\* assessment.acknowledged_by.add(user) written as an update of the whole
\* set read at the start of the request
AddUserStale(S, id, u, seen) == [S EXCEPT ![id].acknowledged_by = seen \cup {u}]

\* assessment.acknowledged_by.add(user): the insert of the row (assessment,
\* user), when the read before it did not find it
AddUser(S, id, u, seen) ==
    IF u \in seen THEN S ELSE [S EXCEPT ![id].acknowledged_by = @ \cup {u}]

\* mark_read up to the read inside acknowledged_by.add: get_object, the role
\* check and the members found.
MarkReadBegin(u, id) ==
    /\ IF GetObject(assessments, assessment_epas, u, id) = Http404
       THEN /\ last' = Handled("mark_read", u, id, {}, NotFound)
            /\ UNCHANGED marking
       ELSE IF users[u].role \notin {"leadership", "admin"}
       THEN /\ last' = Handled("mark_read", u, id, {},
                               MarkReadResult(assessments, assessment_epas, u, id).response)
            /\ UNCHANGED marking
       ELSE /\ marking' = marking \cup
                  {[actor |-> u, id |-> id, seen |-> assessments[id].acknowledged_by]}
            /\ UNCHANGED last
    /\ UNCHANGED <<users, recording, session, activity, credentials, history, tokens, cache, epas, destroying, assessments, assessment_epas, nextId, now,
                   creating, requested>>

\* The insert of acknowledged_by.add and the response of mark_read.
MarkReadEnd(d) ==
    /\ d \in marking
    /\ marking' = marking \ {d}
    /\ IF d.id \in DOMAIN assessments
       THEN /\ assessments' = AddUser(assessments, d.id, d.actor, d.seen)
            /\ last' = Handled("mark_read", d.actor, d.id, {},
                               Response(200, None, NoDays, NoDays,
                                        "Assessment marked as read.", {}))
       ELSE /\ last' = Handled("mark_read", d.actor, d.id, {}, ServerError)
            /\ UNCHANGED assessments
    /\ UNCHANGED <<users, recording, session, activity, credentials, history, tokens, cache, epas, destroying, assessment_epas, nextId, now, creating, requested>>

\* ------------------------------------------------------------------ SpecMailbox
MailboxPosts ==
    {CreateData("t1", "f1", Date1, "submitted", "note", <<EpaData("e1", 3)>>),
     CreateData("t1", "f1", Date1, "submitted", "", <<EpaData("e1", 3)>>),
     CreateData("t1", "f1", Date1, None, "note", <<EpaData("e1", 3)>>),
     CreateData("t2", "f2", Date1, "submitted", "note", <<EpaData("e1", 3)>>)}

MailboxActors == {"a1", "l1", "na", "f1"}

NextMailbox ==
    \/ \E data \in MailboxPosts : Create(data.evaluator, data)
    \/ \E u \in MailboxActors : Mailbox(u)
    \/ \E u \in MailboxActors : MailboxRead(u)
    \/ \E u \in MailboxActors : MailboxCount(u)
    \/ \E u \in MailboxActors, id \in TargetIds : MarkRead(u, id)

SpecMailbox == Init /\ [][NextMailbox]_vars

\* The last request was a mark_read that succeeded.
MarkedRead == last.op = "mark_read" /\ last.response.code = 200

\* C15: after a mark_read of an actor on an Assessment, the same call again
\* is answered 200 and changes neither acknowledged_by nor the actor's unread
\* set, read set or unread_count.
C15_SecondCall ==
    MarkedRead =>
        LET again == MarkReadResult(assessments, assessment_epas, last.actor, last.id)
        IN  /\ again.response.code = 200
            /\ again.assessments = assessments
            /\ MailboxQueryset(again.assessments, last.actor) =
                  MailboxQueryset(assessments, last.actor)
            /\ MailboxReadQueryset(again.assessments, last.actor) =
                  MailboxReadQueryset(assessments, last.actor)
            /\ UnreadCount(again.assessments, last.actor) =
                  UnreadCount(assessments, last.actor)

C15_SecondStep ==
    (MarkedRead /\ last'.op = "mark_read" /\ last'.actor = last.actor /\ last'.id = last.id) =>
        /\ last'.response.code = 200
        /\ assessments' = assessments

MarkReadPosts ==
    {CreateData("t1", "f1", Date1, "submitted", "note", <<EpaData("e1", 3)>>)}

MarkReadActors == {"a1", "l1", "f1"}

NextMarkRead ==
    \/ \E data \in MarkReadPosts : Create(data.evaluator, data)
    \/ \E u \in MarkReadActors, id \in DOMAIN assessments :
          /\ \A d \in marking : d.actor # u
          /\ MarkReadBegin(u, id)
    \/ \E d \in marking : MarkReadEnd(d)

SpecMarkRead == Init /\ [][NextMarkRead]_vars

\* A step of SpecMarkRead as C17 wants it: no member of an acknowledged_by
\* set is lost, and the mark_read that ends puts its actor into the set and
\* leaves the membership, the unread set and the read set of every other user
\* as they were.
C17_Step ==
    /\ \A id \in DOMAIN assessments :
          /\ id \in DOMAIN assessments'
          /\ assessments[id].acknowledged_by \subseteq assessments'[id].acknowledged_by
    /\ \A d \in marking \ marking' :
          /\ d.actor \in assessments'[d.id].acknowledged_by
          /\ \A v \in UserIds \ {d.actor} :
                /\ \A id \in DOMAIN assessments :
                      (v \in assessments'[id].acknowledged_by) =
                         (v \in assessments[id].acknowledged_by)
                /\ MailboxQueryset(assessments', v) = MailboxQueryset(assessments, v)
                /\ MailboxReadQueryset(assessments', v) = MailboxReadQueryset(assessments, v)

MaxFailures == 6

\* The instants of the logins after 0: the last second of a lockout that
\* began at 0, the first second after it, and the first second after a
\* lockout that began at 3599.
LoginInstants == {LOCKOUT_DURATION - 1, LOCKOUT_DURATION, 2 * LOCKOUT_DURATION - 1}

\* The request bodies sent: the right and a wrong password for kim, kim's
\* address in capitals, the deactivated account, and a body without email.
LoginBodies ==
    {[email |-> "kim@x.org", password |-> "right"],
     [email |-> "kim@x.org", password |-> "wrong"],
     [email |-> "KIM@x.org", password |-> "right"],
     [email |-> "dee@x.org", password |-> "right"],
     [email |-> "", password |-> "right"]}

Counted(response) == response.code = 401 /\ response.detail = "Invalid credentials"

\* The history of an address after a login attempt answered with response.
Recorded(h, response, t) ==
    IF Counted(response) THEN [h EXCEPT !.failed = Append(h.failed, t)]
    ELSE IF response.code = 429 THEN [h EXCEPT !.rejected = t]
    ELSE IF response.code = 200
    THEN [failed |-> <<>>, rejected |-> Never,
          cleared |-> Len(h.failed), was_locked |-> h.rejected]
    ELSE h

\* POST /api/users/login/
Login(email, password) ==
    LET r == LoginResult(cache, tokens, email, password, now)
    IN  /\ Counted(r.response) => Len(history[Lower(email)].failed) < MaxFailures
        /\ cache' = r.cache
        /\ tokens' = r.tokens
        /\ credentials' = [email |-> email, password |-> password]
        /\ history' = IF email = "" THEN history
                      ELSE [history EXCEPT ![Lower(email)] = Recorded(@, r.response, now)]
        /\ session' = IF r.response.code = 200
                      THEN [session EXCEPT ![Authenticate(email, password)] = NoSession]
                      ELSE session
        /\ last' = [NoRequest EXCEPT !.op = "login", !.at = now, !.response = r.response]
        /\ UNCHANGED <<users, recording, activity, marking, destroying, epas, assessments, assessment_epas, nextId, creating, requested, now>>

NextLogin ==
    \/ \E b \in LoginBodies : Login(b.email, b.password)
    \/ \E t \in LoginInstants : Tick(t)

SpecLogin == Init /\ [][NextLogin]_vars

\* The number of the last failed attempts of f that each came less than
\* LOCKOUT_DURATION seconds after the one before it.
RECURSIVE C18_Streak(_)
C18_Streak(f) ==
    IF Len(f) <= 1 THEN Len(f)
    ELSE IF f[Len(f)] - f[Len(f) - 1] < LOCKOUT_DURATION
         THEN 1 + C18_Streak(SubSeq(f, 1, Len(f) - 1))
         ELSE 1

\* C18 as stated: once LOCKOUT_THRESHOLD failed attempts were made for an
\* address since its last successful login, every further login attempt with
\* that address, the correct password included, is answered 429. The code
\* keeps the counter for LOCKOUT_DURATION seconds only, so this fails.
C18_LockedForever ==
    \A b \in LoginBodies :
        (b.email # "" /\ Len(history[Lower(b.email)].failed) >= LOCKOUT_THRESHOLD)
        => LoginResult(cache, tokens, b.email, b.password, now).response.code = 429

\* C18 amended: once LOCKOUT_THRESHOLD failed attempts were made for an
\* address since its last successful login, each less than LOCKOUT_DURATION
\* seconds after the one before it, every further login attempt with that
\* address made less than LOCKOUT_DURATION seconds after the last of them,
\* the correct password included, is answered 429 and hands out no token.
C18_LockedForAnHour ==
    \A b \in LoginBodies :
        LET f == history[Lower(b.email)].failed
            r == LoginResult(cache, tokens, b.email, b.password, now)
        IN  (/\ b.email # ""
             /\ C18_Streak(f) >= LOCKOUT_THRESHOLD
             /\ now - f[Len(f)] < LOCKOUT_DURATION)
            => r.response.code = 429 /\ r.tokens = tokens

\* C18: the correct password was answered 429 in the last second of a lockout.
C18_Witness ==
    /\ last.op = "login"
    /\ last.response.code = 429
    /\ credentials = [email |-> "kim@x.org", password |-> "right"]
    /\ last.at = LOCKOUT_DURATION - 1
    /\ C18_Streak(history["kim@x.org"].failed) >= LOCKOUT_THRESHOLD
    /\ tokens = {}

\* C19: a successful login leaves the counter of its address at zero, and an
\* address with fewer than LOCKOUT_THRESHOLD failed attempts since its last
\* successful login is never answered 429.
C19_SuccessResets ==
    /\ (last.op = "login" /\ last.response.code = 200)
       => CacheGet(cache, Lower(credentials.email), now) = 0
    /\ \A b \in LoginBodies :
          (b.email # "" /\ Len(history[Lower(b.email)].failed) < LOCKOUT_THRESHOLD)
          => LoginResult(cache, tokens, b.email, b.password, now).response.code # 429

\* C19: four failures, a successful login, four more failures within the
\* hour, and the counter stands at four.
C19_Witness ==
    /\ last.op = "login"
    /\ Counted(last.response)
    /\ history["kim@x.org"].cleared = LOCKOUT_THRESHOLD - 1
    /\ Len(history["kim@x.org"].failed) = LOCKOUT_THRESHOLD - 1
    /\ CacheGet(cache, "kim@x.org", now) = LOCKOUT_THRESHOLD - 1

\* C20: an attempt answered 429 changes neither the counter nor its expiry;
\* the counter of an address always expires LOCKOUT_DURATION seconds after
\* its last counted failure; and from that instant on no attempt is answered
\* 429 and the correct password logs in.
C20_LockoutExpires ==
    \A b \in LoginBodies :
        LET k == Lower(b.email)
            f == history[k].failed
            r == LoginResult(cache, tokens, b.email, b.password, now)
        IN  b.email # "" =>
            /\ r.response.code = 429 => r.cache = cache
            /\ f # <<>> => cache[k].expires = f[Len(f)] + LOCKOUT_DURATION
            /\ (f # <<>> /\ now - f[Len(f)] >= LOCKOUT_DURATION)
               => /\ r.response.code # 429
                  /\ (Authenticate(b.email, b.password) # None
                      /\ ~Accounts[Authenticate(b.email, b.password)].deactivated)
                     => r.response.code = 200

\* C20: five failures at 0, an attempt answered 429 at 3599, and the correct
\* password logged in at 3600.
C20_Witness ==
    /\ last.op = "login"
    /\ last.response.code = 200
    /\ last.at = LOCKOUT_DURATION
    /\ history["kim@x.org"].cleared = LOCKOUT_THRESHOLD
    /\ history["kim@x.org"].was_locked = LOCKOUT_DURATION - 1

\* ------------------------------------------------------------------ SpecExpiring
\* The instants of the requests after 0: the last second within the timeout
\* of a request at 0, the first second after it, and the same two for a
\* request at 900; at 1800 the cache entry written at 0 is gone.
SessionInstants == {SessionTimeout, SessionTimeout + 1,
                    2 * SessionTimeout, 2 * SessionTimeout + 1}

\* The session of a token after a request answered with response.
Tracked(ss, response, t) ==
    IF response.code = 200 THEN [ss EXCEPT !.previous = t]
    ELSE IF response.detail = "Session expired" THEN [ss EXCEPT !.expired = TRUE]
    ELSE ss

\* GET /api/users/me/ with the header Authorization: Token <key>
Me(key) ==
    LET r == AuthenticateCredentials(activity, tokens, key, now)
    IN  /\ activity' = r.activity
        /\ session' = [session EXCEPT ![key] = Tracked(@, r.response, now)]
        /\ last' = [NoRequest EXCEPT !.op = "me", !.actor = key, !.at = now,
                                     !.response = r.response]
        /\ UNCHANGED <<users, recording, credentials, history, tokens, cache, marking, destroying, epas, assessments, assessment_epas, nextId, creating, requested, now>>

\* POST /api/users/logout/ with the header Authorization: Token <key>
Logout(key) ==
    LET r == AuthenticateCredentials(activity, tokens, key, now)
    IN  /\ activity' = IF r.response.code = 200
                       THEN ClearSessionActivity(r.activity, key) ELSE r.activity
        /\ tokens' = IF r.response.code = 200 THEN tokens \ {key} ELSE tokens
        /\ session' = [session EXCEPT ![key] =
                          IF r.response.code = 200 THEN NoSession
                          ELSE Tracked(@, r.response, now)]
        /\ last' = [NoRequest EXCEPT !.op = "logout", !.actor = key, !.at = now,
                                     !.response = r.response]
        /\ UNCHANGED <<users, recording, credentials, history, cache, marking, destroying, epas, assessments, assessment_epas, nextId, creating, requested, now>>

NextExpiring ==
    \/ Login("kim@x.org", "right")
    \/ \E key \in TokenKeys : Me(key)
    \/ \E key \in TokenKeys : Logout(key)
    \/ \E t \in SessionInstants : Tick(t)

SpecExpiring == Init /\ [][NextExpiring]_vars

\* C21: a request with a token that arrives more than SessionTimeout seconds
\* after the last accepted request with that token is answered 401, and one
\* that arrives within SessionTimeout seconds is accepted and sets the
\* activity timestamp to its own instant.
C21_SessionTimeout ==
    \A key \in tokens :
        LET r == AuthenticateCredentials(activity, tokens, key, now)
        IN  session[key].previous # Never =>
            IF now - session[key].previous > SessionTimeout
            THEN r.response.code = 401
            ELSE /\ r.response.code = 200
                 /\ r.activity[key].last_activity = now

\* C29: once a request with a token was rejected as expired, every later
\* request with that token is answered 401 until its user logs in again.
C29_ExpiredStaysExpired ==
    \A key \in tokens :
        session[key].expired =>
            AuthenticateCredentials(activity, tokens, key, now).response.code = 401

\* ------------------------------------------------------------------ SpecLoginRace
\* The failed logins of an address that began and did not end yet.
Recording(key) == {d \in recording : Lower(d.email) = key}

\* login up to the cache.get of record_failed_attempt: a request that is
\* locked out, incomplete or successful ends here; a request with invalid
\* credentials has read the counter and has not written it yet.
LoginBegin(email, password) ==
    IF Counted(LoginResult(cache, tokens, email, password, now).response)
    THEN /\ Len(history[Lower(email)].failed) + Cardinality(Recording(Lower(email)))
               < MaxFailures
         /\ recording' = recording \cup
               {[n |-> Len(history[Lower(email)].failed)
                          + Cardinality(Recording(Lower(email))) + 1,
                 email |-> email, password |-> password,
                 attempts |-> CacheGet(cache, Lower(email), now)]}
         /\ UNCHANGED <<users, session, activity, credentials, history, tokens, cache, marking, destroying, epas, assessments, assessment_epas, nextId, creating, requested, last, now>>
    ELSE Login(email, password)

\* login from the cache.set of record_failed_attempt to the 401 response
LoginRecord(d) ==
    /\ recording' = recording \ {d}
    /\ cache' = [cache EXCEPT ![Lower(d.email)] =
                    [attempts |-> d.attempts + 1, expires |-> now + LOCKOUT_DURATION]]
    /\ history' = [history EXCEPT ![Lower(d.email)].failed = Append(@, now)]
    /\ credentials' = [email |-> d.email, password |-> d.password]
    /\ last' = [NoRequest EXCEPT !.op = "login", !.at = now, !.response =
                   Response(401, None, NoDays, NoDays, "Invalid credentials",
                            {[attempts_warning |-> LOCKOUT_THRESHOLD - (d.attempts + 1)]})]
    /\ UNCHANGED <<users, session, activity, tokens, marking, destroying, epas, assessments, assessment_epas, nextId, creating, requested, now>>

\* The failed logins sent: a wrong password, and the right password with the
\* address in capitals; both count for login_attempts_kim@x.org.
RaceBodies ==
    {[email |-> "kim@x.org", password |-> "wrong"],
     [email |-> "KIM@x.org", password |-> "right"]}

NextLoginRace ==
    \/ \E b \in RaceBodies : LoginBegin(b.email, b.password)
    \/ \E d \in recording : LoginRecord(d)

SpecLoginRace == Init /\ [][NextLoginRace]_vars

\* C28: when no failed login is in flight, the counter of an address equals
\* the number of its failed logins (up to LOCKOUT_THRESHOLD of them, no
\* success in between), and no more than LOCKOUT_THRESHOLD logins of an
\* address get their password checked before the lockout.
C28_CountsEveryFailure ==
    \A key \in CacheKeys :
        /\ (Recording(key) = {} /\ Len(history[key].failed) <= LOCKOUT_THRESHOLD)
           => CacheGet(cache, key, now) = Len(history[key].failed)
        /\ Len(history[key].failed) + Cardinality(Recording(key)) <= LOCKOUT_THRESHOLD

\* ------------------------------------------------------------------ competency progress
\* The rows (key, entrustment_level) of the join of the submitted Assessments
\* of a trainee with the AssessmentEPA rows of the EPAs of a sub-competency.
ProgressRows(E, ids, sc, program) ==
    {<<<<r.assessment, r.epa>>, r.entrustment_level>> :
        r \in {x \in E : /\ x.assessment \in ids
                         /\ x.epa \in SubCompetencies[sc].epas
                         /\ EpaProgram[x.epa] = program}}

\* One entry of subcompetency_data of competency_progress_data; the average
\* is in hundredths.
ProgressSub(E, ids, sc, program) ==
    LET rows == ProgressRows(E, ids, sc, program)
    IN  [code |-> sc,
         avg_entrustment_level |->
            IF rows = {} THEN NoAverage
            ELSE RoundHalfEven(100 * SumLevels(rows), Cardinality(rows)),
         assessment_count |-> Cardinality(rows),
         epas_count |-> Cardinality({e \in SubCompetencies[sc].epas :
                                        EpaProgram[e] = program})]

\* competency_total and competency_count after the loop over the
\* sub-competencies scs, weighting each average by its number of rows
RECURSIVE CompetencyTotalWeighted(_, _, _, _)
CompetencyTotalWeighted(E, ids, scs, program) ==
    IF scs = {} THEN [num |-> 0, den |-> 1, count |-> 0]
    ELSE LET sc == CHOOSE x \in scs : TRUE
             rest == CompetencyTotalWeighted(E, ids, scs \ {sc}, program)
             rows == ProgressRows(E, ids, sc, program)
         IN  IF rows = {} THEN rest
             ELSE [num |-> rest.num + SumLevels(rows), den |-> 1,
                   count |-> rest.count + Cardinality(rows)]

\* competency_total (the fraction num / den) and competency_count after the
\* loop over the sub-competencies scs
RECURSIVE CompetencyTotal(_, _, _, _)
CompetencyTotal(E, ids, scs, program) ==
    IF scs = {} THEN [num |-> 0, den |-> 1, count |-> 0]
    ELSE LET sc == CHOOSE x \in scs : TRUE
             rest == CompetencyTotal(E, ids, scs \ {sc}, program)
             rows == ProgressRows(E, ids, sc, program)
         IN  IF rows = {} THEN rest
             ELSE [num |-> rest.num * Cardinality(rows) + SumLevels(rows) * rest.den,
                   den |-> rest.den * Cardinality(rows),
                   count |-> rest.count + 1]

\* The sub-competencies of a core competency of a program
SubsOf(cc, program) ==
    {sc \in DOMAIN SubCompetencies :
        /\ SubCompetencies[sc].core_competency = cc
        /\ SubCompetencies[sc].program = program}

\* CoreCompetency.objects.filter(program=program)
CoreCompetencies(program) ==
    {SubCompetencies[sc].core_competency :
        sc \in {x \in DOMAIN SubCompetencies : SubCompetencies[x].program = program}}

\* One entry of competency_data
CompetencyInfo(E, ids, cc, program) ==
    LET total == CompetencyTotal(E, ids, SubsOf(cc, program), program)
    IN  [code |-> cc,
         avg_entrustment_level |->
            IF total.count = 0 THEN NoAverage
            ELSE RoundHalfEven(100 * total.num, total.den * total.count),
         subcompetencies |-> {ProgressSub(E, ids, sc, program) :
                                sc \in SubsOf(cc, program)},
         total_assessments |->
            SumLevels({<<sc, Cardinality(ProgressRows(E, ids, sc, program))>> :
                          sc \in SubsOf(cc, program)})]

\* Assessment.objects.filter(trainee=user, status='submitted')
SubmittedOf(S, u) == {id \in DOMAIN S : S[id].trainee = u /\ S[id].status = "submitted"}

\* analytics.views.competency_progress_data
CompetencyProgressResponse(S, E, u) ==
    IF users[u].role # "trainee"
    THEN GridError(403, "Only trainees can access competency progress")
    ELSE IF users[u].program = None
    THEN GridError(400, "User is not assigned to a program")
    ELSE Response(200, None, NoDays, NoDays, "",
                  {CompetencyInfo(E, SubmittedOf(S, u), cc, users[u].program) :
                      cc \in CoreCompetencies(users[u].program)})

\* GET /analytics/competency-progress
CompetencyProgress(u) ==
    /\ last' = Handled("competency_progress", u, 0, SubmittedOf(assessments, u),
                       CompetencyProgressResponse(assessments, assessment_epas, u))
    /\ UNCHANGED <<users, recording, session, activity, credentials, history, tokens, cache, marking, destroying, epas, assessments, assessment_epas, nextId, now, creating, requested>>

\* ------------------------------------------------------------------ SpecProgress
ProgressPosts ==
    {CreateData("t1", "f1", Date1, st, "", rows) :
        st \in {None, "submitted"},
        rows \in {<<EpaData("e1", 3)>>, <<EpaData("e1", 4), EpaData("e2", 2)>>,
                  <<EpaData("e1", 2), EpaData("e2", 5)>>, <<EpaData("e2", 1)>>}}

ProgressActors == {"t1", "t2", "f1"}

NextProgress ==
    \/ \E data \in ProgressPosts : Create(data.evaluator, data)
    \/ \E u \in ProgressActors : CompetencyGrid(u, "t1", <<>>, <<>>)
    \/ \E u \in ProgressActors : CompetencyProgress(u)

SpecProgress == Init /\ [][NextProgress]_vars

\* The AssessmentEPA rows of the Assessments ids whose EPA is mapped to the
\* sub-competency sc and belongs to program.
C22_Matching(ids, sc, program) ==
    {r \in assessment_epas : /\ r.assessment \in ids
                             /\ r.epa \in SubCompetencies[sc].epas
                             /\ EpaProgram[r.epa] = program}

\* C22: in the competency grid and in the competency progress no average is
\* ever 0; a sub-competency with no matching AssessmentEPA row has no average
\* (and in the grid has_data false and no milestone level), and a core
\* competency none of whose sub-competencies has data has no average.
C22_NoDataIsNotZero ==
    /\ (last.op = "competency_grid" /\ last.response.code = 200) =>
          \A d \in last.response.data : \A sub \in d.competencies :
              /\ sub.average_entrustment # 0
              /\ C22_Matching(last.ids, sub.code, users[d.trainee].program) = {}
                 => /\ sub.average_entrustment = NoAverage
                    /\ sub.milestone_level = NoMilestone
                    /\ ~sub.has_data
    /\ (last.op = "competency_progress" /\ last.response.code = 200) =>
          \A c \in last.response.data :
              /\ c.avg_entrustment_level # 0
              /\ \A sub \in c.subcompetencies :
                    /\ sub.avg_entrustment_level # 0
                    /\ C22_Matching(last.ids, sub.code, users[last.actor].program) = {}
                       => sub.avg_entrustment_level = NoAverage
              /\ (\A sub \in c.subcompetencies :
                     C22_Matching(last.ids, sub.code, users[last.actor].program) = {})
                 => c.avg_entrustment_level = NoAverage

\* C22: a grid in which one sub-competency has data and another has none.
C22_Witness ==
    /\ last.op = "competency_grid"
    /\ last.response.code = 200
    /\ \E d \in last.response.data : \E a, b \in d.competencies :
          /\ a.has_data
          /\ C22_Matching(last.ids, b.code, users[d.trainee].program) = {}
          /\ b.average_entrustment = NoAverage

RECURSIVE GCD(_, _)
GCD(a, b) == IF b = 0 THEN a ELSE GCD(b, a % b)

\* The sum of the fractions fs, each <<key, numerator, denominator>>
RECURSIVE C23_Sum(_)
C23_Sum(fs) ==
    IF fs = {} THEN <<0, 1>>
    ELSE LET f == CHOOSE x \in fs : TRUE
             rest == C23_Sum(fs \ {f})
         IN  <<rest[1] * f[3] + f[2] * rest[2], rest[2] * f[3]>>

\* The averages of the sub-competencies of cc that have data, in lowest terms
C23_Averages(ids, cc, program) ==
    {<<sc, SumLevels(ProgressRows(assessment_epas, ids, sc, program))
              \div GCD(SumLevels(ProgressRows(assessment_epas, ids, sc, program)),
                       Cardinality(ProgressRows(assessment_epas, ids, sc, program))),
           Cardinality(ProgressRows(assessment_epas, ids, sc, program))
              \div GCD(SumLevels(ProgressRows(assessment_epas, ids, sc, program)),
                       Cardinality(ProgressRows(assessment_epas, ids, sc, program)))>> :
        sc \in {x \in SubsOf(cc, program) :
                   ProgressRows(assessment_epas, ids, x, program) # {}}}

\* C23: the average of a core competency is the unweighted mean (to two
\* decimals) of the averages of its sub-competencies that have data, whatever
\* the number of ratings behind each of these averages.
C23_RollupIsUnweighted ==
    (last.op = "competency_progress" /\ last.response.code = 200) =>
        \A c \in last.response.data :
            LET avgs == C23_Averages(last.ids, c.code, users[last.actor].program)
            IN  avgs # {} =>
                c.avg_entrustment_level =
                    RoundHalfEven(100 * C23_Sum(avgs)[1],
                                  C23_Sum(avgs)[2] * Cardinality(avgs))

\* C23: a core competency whose sub-competencies have the averages 4 (one
\* rating) and 3 (two ratings) reports 3.5, not the 3.33 of all ratings.
C23_Witness ==
    /\ last.op = "competency_progress"
    /\ last.response.code = 200
    /\ \E c \in last.response.data :
          /\ c.avg_entrustment_level = 350
          /\ \E a, b \in c.subcompetencies :
                /\ a.avg_entrustment_level = 400 /\ a.assessment_count = 1
                /\ b.avg_entrustment_level = 300 /\ b.assessment_count = 2

\* The distinct (assessment, entrustment_level) rows behind the average of a
\* sub-competency of the grid
C24_Pairs(ids, sc, program) ==
    {<<r.assessment, r.entrustment_level>> : r \in C22_Matching(ids, sc, program)}

NoSuchDate == <<2024, 2, 30>>

FilterPosts ==
    {CreateData("t1", "f1", Date1, "submitted", "", <<EpaData("e1", 3)>>),
     CreateData("t1", "f1", Date2, "submitted", "", <<EpaData("e2", 4)>>),
     CreateData("t1", "a1", Date1, "submitted", "", <<EpaData("e2", 4)>>),
     CreateData("t1", "a1", Date2, "submitted", "", <<EpaData("e1", 3)>>)}

FilterActors == {"t1", "f1", "a1"}

FilterQueries ==
    {[trainee_id |-> tr, evaluator_id |-> ev, epa_id |-> ep,
      start_date |-> sd, end_date |-> ed] :
        tr \in {None, "t1"}, ev \in {None, "f1"}, ep \in {None, "e1"},
        sd \in {<<>>, Date2, BadDate}, ed \in {<<>>, Date1, NoSuchDate}}

NextFilter ==
    \/ \E data \in FilterPosts : Create(data.evaluator, data)
    \/ \E u \in FilterActors, p \in FilterQueries : List(u, p)

SpecFilter == Init /\ [][NextFilter]_vars

\* The query p with one parameter only
C27_Only(p, field) ==
    [f \in DOMAIN NoParams |-> IF f = field THEN p[f] ELSE NoParams[f]]

Cohorts == [c1 |-> [program |-> "P1"], c2 |-> [program |-> "P1"], c3 |-> [program |-> "P2"]]

UserCohort(u) == IF u = "t1" THEN "c1" ELSE IF u = "t2" THEN "c3" ELSE None

\* The calendar date at the instant 0
Epoch == <<2024, 3, 16>>

\* date.toordinal(): the days from 0001-01-01, which is day 1
DaysBeforeYear(y) == 365 * (y - 1) + (y - 1) \div 4 - (y - 1) \div 100 + (y - 1) \div 400

RECURSIVE DaysBeforeMonth(_, _)
DaysBeforeMonth(y, m) ==
    IF m = 1 THEN 0 ELSE DaysBeforeMonth(y, m - 1) + DaysInMonth(y, m - 1)

ToOrdinal(d) == DaysBeforeYear(d[1]) + DaysBeforeMonth(d[1], d[2]) + d[3]

\* date.fromordinal(n), for the years around the epoch
FromOrdinal(n) ==
    LET y == CHOOSE x \in (Epoch[1] - 2) .. (Epoch[1] + 1) :
                 DaysBeforeYear(x) < n /\ n <= DaysBeforeYear(x + 1)
        m == CHOOSE x \in 1 .. 12 :
                 /\ DaysBeforeMonth(y, x) < n - DaysBeforeYear(y)
                 /\ n - DaysBeforeYear(y) <= DaysBeforeMonth(y, x) + DaysInMonth(y, x)
    IN  <<y, m, n - DaysBeforeYear(y) - DaysBeforeMonth(y, m)>>

\* timezone.now().date() as an ordinal
Today(t) == ToOrdinal(Epoch) + t \div DAY

\* Avg('assessment_epas__entrustment_level') over the Assessments ids, in
\* hundredths: the rows of the join, None (NoAverage) without rows
AvgEntrustment(E, ids) ==
    LET rows == {<<<<r.assessment, r.epa>>, r.entrustment_level>> :
                    r \in {x \in E : x.assessment \in ids}}
    IN  IF rows = {} THEN NoAverage
        ELSE RoundHalfEven(100 * SumLevels(rows), Cardinality(rows))

\* "avg or 0"
OrZero(avg) == IF avg = NoAverage THEN 0 ELSE avg

\* Assessment.objects.filter(trainee__program=program, shift_date__gte=...,
\* shift_date__lte=...) with the cohort and trainee filters
PerformanceAssessments(S, program, months, cohort_id, trainee_id, t) ==
    {id \in DOMAIN S :
        /\ users[S[id].trainee].program = program
        /\ ToOrdinal(S[id].shift_date) >= Today(t) - months * 30
        /\ ToOrdinal(S[id].shift_date) <= Today(t)
        /\ cohort_id # None => UserCohort(S[id].trainee) = cohort_id
        /\ trainee_id # None => S[id].trainee = trainee_id}

\* total_trainees_query
TotalTrainees(program, cohort_id, trainee_id) ==
    {x \in DOMAIN users :
        /\ users[x].role = "trainee"
        /\ users[x].program = program
        /\ cohort_id # None => UserCohort(x) = cohort_id
        /\ trainee_id # None => x = trainee_id}

\* active_trainees: the trainees with an Assessment since start_date
ActiveTrainees(S, program, months, cohort_id, trainee_id, t) ==
    {x \in TotalTrainees(program, cohort_id, trainee_id) :
        \E id \in DOMAIN S :
            /\ S[id].trainee = x
            /\ ToOrdinal(S[id].shift_date) >= Today(t) - months * 30}

\* The Assessments of ids with a row of an EPA of a sub-competency of cc
CompetencyAssessments(E, ids, cc) ==
    {id \in ids :
        \E r \in E, sc \in DOMAIN SubCompetencies :
            /\ r.assessment = id
            /\ r.epa \in SubCompetencies[sc].epas
            /\ SubCompetencies[sc].core_competency = cc}

\* The codes of the core competencies in the order of the model (by code)
CoreCompetencyOrder == <<"MK", "PC">>

\* total_assessments after the loop over the core competencies, which
\* assigns it the count of each competency in turn
TotalAssessmentsAfterLoop(E, ids, program) ==
    LET InProgram(cc) == cc \in CoreCompetencies(program)
        ccs == SelectSeq(CoreCompetencyOrder, InProgram)
    IN  IF ccs = <<>> THEN Cardinality(ids)
        ELSE Cardinality(CompetencyAssessments(E, ids, ccs[Len(ccs)]))

\* One entry of trainee_breakdown
TraineeEntry(S, E, ids, x) ==
    LET mine == {id \in ids : S[id].trainee = x}
    IN  [id |-> x,
         assessments_in_period |-> Cardinality(mine),
         average_competency_level |-> OrZero(AvgEntrustment(E, mine)),
         is_active |-> mine # {}]

\* get_cohort_breakdown
CohortBreakdown(S, E, ids, program, cohort_id) ==
    {[id |-> c,
      trainee_count |-> Cardinality({x \in DOMAIN users :
                                        /\ users[x].role = "trainee"
                                        /\ users[x].program = program
                                        /\ UserCohort(x) = c}),
      assessment_count |-> Cardinality({id \in ids : UserCohort(S[id].trainee) = c}),
      average_entrustment_level |->
          AvgEntrustment(E, {id \in ids : UserCohort(S[id].trainee) = c})] :
        c \in {x \in DOMAIN Cohorts :
                  /\ Cohorts[x].program = program
                  /\ cohort_id # None => x = cohort_id}}

\* The Assessments of the i-th window of 30 days back from today
MonthAssessments(S, ids, i, t) ==
    {id \in ids :
        /\ ToOrdinal(S[id].shift_date) >= Today(t) - (i + 1) * 30
        /\ ToOrdinal(S[id].shift_date) < Today(t) - i * 30}

\* month_start.strftime('%b %Y'): the year and the month of the first day of
\* the i-th window
MonthLabel(i, t) == SubSeq(FromOrdinal(Today(t) - (i + 1) * 30), 1, 2)

\* monthly_assessments and monthly_entrustment after reverse(), as one list
MonthlyTrends(S, E, ids, months, t) ==
    [k \in 1 .. months |->
        [month |-> MonthLabel(months - k, t),
         assessments |-> Cardinality(MonthAssessments(S, ids, months - k, t)),
         average_entrustment |->
            OrZero(AvgEntrustment(E, MonthAssessments(S, ids, months - k, t)))]]

\* The body of the 200 response of program_performance_data
PerformanceData(S, E, program, months, cohort_id, trainee_id, t) ==
    LET ids == PerformanceAssessments(S, program, months, cohort_id, trainee_id, t)
        active == ActiveTrainees(S, program, months, cohort_id, trainee_id, t)
    IN  [program |-> program,
         months |-> months,
         total_trainees |-> Cardinality(TotalTrainees(program, cohort_id, trainee_id)),
         active_trainees |-> Cardinality(active),
         assessments_in_period |-> TotalAssessmentsAfterLoop(E, ids, program),
         average_competency_level |-> OrZero(AvgEntrustment(E, ids)),
         trainee_breakdown |-> {TraineeEntry(S, E, ids, x) : x \in active},
         cohort_breakdown |-> CohortBreakdown(S, E, ids, program, cohort_id),
         trends |-> MonthlyTrends(S, E, ids, months, t)]

\* analytics.views.program_performance_data
ProgramPerformanceResponse(S, E, u, months, cohort_id, trainee_id, t) ==
    IF users[u].program = None
    THEN GridError(400, "User is not assigned to a program")
    ELSE IF cohort_id # None
            /\ (cohort_id \notin DOMAIN Cohorts
                \/ Cohorts[cohort_id].program # users[u].program)
    THEN GridError(404, "Cohort not found")
    ELSE IF trainee_id # None
            /\ (trainee_id \notin DOMAIN users
                \/ users[trainee_id].program # users[u].program
                \/ users[trainee_id].role # "trainee")
    THEN GridError(404, "Trainee not found")
    ELSE Response(200, None, NoDays, NoDays, "",
                  {PerformanceData(S, E, users[u].program, months,
                                   cohort_id, trainee_id, t)})

\* GET /analytics/program-performance
ProgramPerformance(u, months, cohort_id, trainee_id) ==
    /\ last' = Handled("program_performance", u, 0,
                       IF users[u].program = None THEN {}
                       ELSE PerformanceAssessments(assessments, users[u].program,
                                                   months, cohort_id, trainee_id, now),
                       ProgramPerformanceResponse(assessments, assessment_epas, u,
                                                  months, cohort_id, trainee_id, now))
    /\ UNCHANGED <<users, recording, session, activity, credentials, history, tokens, cache, marking, destroying, epas, assessments, assessment_epas, nextId, now, creating, requested>>

\* ------------------------------------------------------------------ SpecPerformance
\* Shift dates: today (Date2), yesterday (Date1) and 31 days ago
Date31 == <<2024, 2, 14>>

PerformancePosts ==
    {CreateData("t1", "f1", sd, "submitted", "", rows) :
        sd \in {Date1, Date2, Date31},
        rows \in {<<>>, <<EpaData("e1", 3)>>}}

PerformanceActors == {"f1", "x3", "nf"}

PerformanceMonths == {1, 2}

PerformanceCohorts == {None, "c1", "c2", "c3"}

PerformanceTrainees == {None, "t1", "t2"}

NextPerformance ==
    \/ \E data \in PerformancePosts : Create(data.evaluator, data)
    \/ \E u \in PerformanceActors, months \in PerformanceMonths,
          c \in PerformanceCohorts, t \in PerformanceTrainees :
          ProgramPerformance(u, months, c, t)

SpecPerformance == Init /\ [][NextPerformance]_vars

\* The month a is before the month b
C25_Before(a, b) == a[1] < b[1] \/ (a[1] = b[1] /\ a[2] < b[2])

\* C25: in the monthly trend of program-performance every Assessment of the
\* filtered set is counted in exactly one bucket, that of the calendar month
\* of its shift_date; the buckets are in strictly ascending order; a bucket
\* without Assessments has the count 0 and no average.
C25_MonthlyPartition ==
    (last.op = "program_performance" /\ last.response.code = 200) =>
        \A d \in last.response.data :
            /\ \A id \in last.ids :
                  Cardinality({k \in DOMAIN d.trends :
                      d.trends[k].month = SubSeq(assessments[id].shift_date, 1, 2)}) = 1
            /\ \A k \in DOMAIN d.trends :
                  d.trends[k].assessments =
                      Cardinality({id \in last.ids :
                          SubSeq(assessments[id].shift_date, 1, 2) = d.trends[k].month})
            /\ \A j, k \in DOMAIN d.trends :
                  j < k => C25_Before(d.trends[j].month, d.trends[k].month)
            /\ \A k \in DOMAIN d.trends :
                  d.trends[k].assessments = 0 => d.trends[k].average_entrustment = NoAverage

\* C26: every cohort of the actor's program and every trainee of the program
\* within the cohort and trainee filter is in the breakdown lists of
\* program-performance, and an entry without Assessments has the count 0 and
\* no average.
C26_BreakdownComplete ==
    \A u \in PerformanceActors, months \in PerformanceMonths,
       c \in PerformanceCohorts, t \in PerformanceTrainees :
        LET r == ProgramPerformanceResponse(assessments, assessment_epas, u,
                                            months, c, t, now)
        IN  r.code = 200 =>
            \A d \in r.data :
                /\ \A x \in DOMAIN Cohorts :
                      (Cohorts[x].program = users[u].program /\ (c # None => x = c))
                      => \E e \in d.cohort_breakdown : e.id = x
                /\ \A x \in TotalTrainees(users[u].program, c, t) :
                      \E e \in d.trainee_breakdown : e.id = x
                /\ \A e \in d.cohort_breakdown :
                      e.assessment_count = 0 => e.average_entrustment_level = NoAverage
                /\ \A e \in d.trainee_breakdown :
                      e.assessments_in_period = 0 => e.average_competency_level = NoAverage

\* C30: metrics.assessments_in_period of program-performance is the number
\* of Assessments of the filtered set.
C30_AssessmentsInPeriod ==
    (last.op = "program_performance" /\ last.response.code = 200) =>
        \A d \in last.response.data :
            d.assessments_in_period = Cardinality(last.ids)

====
